---- MODULE Spec2Model ----
(***************************************************************************)
(* Model of market_data_engine:                                            *)
(*   - LockFreeRingBuffer<T,N> (include/LockFreeRingBuffer.hpp): the       *)
(*     bounded MPMC ring with per-slot sequence numbers;                   *)
(*   - PerformanceMetrics (include/Types.hpp);                             *)
(*   - DatabentoHandler (src/DatabentoHandler.cpp): StartAsyncFetch,       *)
(*     StopAsyncFetch, AsyncFetchWorker, FetchHistoricalBBO,               *)
(*     ProcessBBORecord;                                                   *)
(*   - consumer_thread, signal_handler and main (src/main.cpp).            *)
(*                                                                         *)
(* Every access to an atomic (or to slot data) is one step of the thread   *)
(* that makes it; local computation (a branch, a call, a return) belongs   *)
(* to the step of the access before or after it.  Atomics are modelled as  *)
(* sequentially consistent.  error_callback_ is a plain std::function:     *)
(* SetErrorCallback assigns it without synchronisation, and a thread that  *)
(* tests or calls it while the assignment is under way races with it; the  *)
(* model gives such a read every outcome the race can have, the death of   *)
(* the process included.                                                   *)
(*                                                                         *)
(* The latency of a push is the difference of two reads of                 *)
(* std::chrono::high_resolution_clock, which need not be steady: it takes  *)
(* negative, zero and positive values, added to unsigned counters.         *)
(*                                                                         *)
(* Eight specifications share the variables:                               *)
(*   Spec        - producer and consumer threads calling try_push/try_pop  *)
(*   SpecCalls   - Spec, recording what each call saw while it ran         *)
(*   SpecWatch   - Spec with a thread calling size() and utilization()     *)
(*   SpecProgress- the ring threads of Spec under fair scheduling          *)
(*   SpecMetrics - threads on ProcessBBORecord's path and a popping thread *)
(*   SpecHandler - a client of the handler's public interface and the      *)
(*                 fetch worker, nothing popping                           *)
(*   SpecAsync   - SpecHandler with a client that never calls              *)
(*                 FetchHistoricalBBO itself, over a longer source         *)
(*   SpecMain    - main() with its worker, its consumer_thread and signals *)
(***************************************************************************)
EXTENDS Integers, Sequences, FiniteSets, TLC

\* ------------------------------------------------------------------ sizes

\* template parameter N of LockFreeRingBuffer (a power of two, >= 2)
N == 2

\* static constexpr MASK = N - 1
MASK == N - 1

\* elements each producer thread of Spec pushes
MaxPush == 2

\* elements each producer thread of SpecWatch pushes
WatchPush == 1

\* records each producer thread of SpecMetrics processes
MetricsPush == 2

\* records the source of SpecAsync holds
AsyncRecords == 4

\* records a StartAsyncFetch of SpecHandler's client covers
HandlerRecords == 2

\* records a direct FetchHistoricalBBO call of SpecHandler's client covers
FetchRecords == 1

\* records the source of SpecMain holds
MainRecords == 3

\* config::FETCH_TIMEOUT_SECONDS
FETCH_TIMEOUT_SECONDS == 30

\* calls the client of SpecHandler makes
MaxCalls == 3

\* largest latency_ns of a record
MaxLatency == 2

\* furthest the clock is set back between start_time and end_time of a record
MaxClockStepBack == 1

\* ProcessBBORecord: buffer_overruns % 1000 == 1
OVERRUN_NOTICE_EVERY == 1000

\* width of std::size_t in the model (the subtraction in size() wraps)
WordBits == 16

SizeTMod == 2 ^ WordBits

\* ---------------------------------------------------------------- threads

Producers == {"p1", "p2"}

Consumers == {"c1", "c2"}

Observer == "obs"

RingThreads == Producers \cup Consumers \cup {Observer}

Worker == "worker"

ConsumerThread == "consumer"

Client == "client"

Main == "main"

AllThreads == RingThreads \cup {Client, Worker, ConsumerThread, Main}

\* the threads that run FetchHistoricalBBO: the fetch worker, and a client
\* that calls it directly
Fetchers == {Worker, Client}

\* T{}: the default-constructed element held by a slot never written
NoItem == [src |-> "none", k |-> 0]

\* the k-th element pushed by thread t
Item(t, k) == [src |-> t, k |-> k]

\* ------------------------------------------------------------------ state

VARIABLES
    buffer_seq,      \* buffer_[i].sequence
    buffer_data,     \* buffer_[i].data
    enqueue_pos_,    \* producer cursor
    dequeue_pos_,    \* consumer cursor
    pc,              \* each thread's position in its code
    pos,             \* local pos of try_push / try_pop; enq_pos of size()
    seq,             \* local seq of try_push / try_pop
    item,            \* the item being pushed, or the out-parameter of try_pop
    ret,             \* return value of the thread's last ring call
    next,            \* index (1..) of the next try_push call of a producer, of the worker
    sizeRet,         \* value returned by the observer's last size() call
    utilRet,         \* numerator of the observer's last utilization() (over N)
    pushedAt,        \* history: <<position, item>> of each try_push that returned true
    poppedAt,        \* history: <<position, item>> of each try_pop that returned true
    fullSeen,        \* history: during t's call, enqueue_pos_-dequeue_pos_ = N held
    occSeen,         \* history: no slot was free when t's try_push gave up
    emptySeen,       \* history: during t's call, enqueue_pos_ = dequeue_pos_ held
    unpubSeen,       \* history: nothing was published when t's try_pop gave up
    tracking,        \* whether fullSeen and emptySeen are kept
    quota,           \* Spec: how many elements each producer thread pushes
    latencies,       \* the values latency_ns of a record can take in the run
    is_fetching_,    \* DatabentoHandler::is_fetching_
    fetch_thread_,   \* DatabentoHandler::fetch_thread_: "null" or "set"
    metrics_,        \* DatabentoHandler::metrics_
    running,         \* the global flag of main.cpp
    errors,          \* the messages handed to error_callback_, oldest first
    rec,             \* per fetching thread: index of the record the source delivers next
    fetchNo,         \* how many fetch workers were spawned
    lat,             \* latency_ns of each thread's ProcessBBORecord
    cmax,            \* current_max of each thread's ProcessBBORecord
    wschema,         \* per fetching thread: the schema argument of its fetch
    ri,              \* per fetching thread: how many counters Reset() has stored
    numRecords,      \* per fetching thread: how many records its request covers
    stopRec,         \* history: the record in progress when a stop cleared the flag
    callLog,         \* history: the calls the client made, oldest first
    apiKey,          \* the environment's DATABENTO_API_KEY ("unset" if absent)
    wait_count,      \* main: int wait_count
    exitCode,        \* what main returned, -1 while it runs
    drainDue,        \* history: the worker had returned when running was cleared
    error_callback_  \* DatabentoHandler::error_callback_ holds a callable

ringVars == <<buffer_seq, buffer_data, enqueue_pos_, dequeue_pos_>>

localVars == <<pc, pos, seq, item, ret>>

histVars == <<pushedAt, poppedAt, fullSeen, occSeen, emptySeen, unpubSeen>>

vars == <<buffer_seq, buffer_data, enqueue_pos_, dequeue_pos_, pc, pos, seq,
          item, ret, next, sizeRet, utilRet, pushedAt, poppedAt, fullSeen, occSeen,
          emptySeen, unpubSeen, tracking, quota, latencies, is_fetching_,
          fetch_thread_,
          metrics_, running, errors, rec, fetchNo, lat, cmax, wschema, ri,
          numRecords, stopRec, callLog, apiKey, wait_count, exitCode, drainDue,
          error_callback_>>

\* the variables of the ring harness of Spec
auxVars ==
    <<next, fullSeen, occSeen, emptySeen, unpubSeen, tracking, quota, latencies>>

\* the variables of the handler, its worker and its callers
handlerVars == <<is_fetching_, fetch_thread_, metrics_, running, errors>>

workerVars == <<rec, fetchNo, lat, cmax, wschema, ri, numRecords, stopRec>>

\* what only the caller of the handler (the client, or main) writes
callerVars == <<callLog, apiKey, wait_count, exitCode, drainDue, error_callback_>>

appVars == <<handlerVars, workerVars, callerVars>>

\* ---------------------------------------------------------------- helpers

RECURSIVE BitAnd(_, _)
\* a & b on non-negative integers
BitAnd(a, b) ==
    IF a = 0 \/ b = 0 THEN 0
    ELSE (a % 2) * (b % 2) + 2 * BitAnd(a \div 2, b \div 2)

\* mutant: the mask is dropped and every position maps to slot 0
SlotOf_NoMask(p) == 0

\* &buffer_[pos & MASK]
SlotOf(p) == BitAnd(p, MASK)

\* latency_ns = (end_time - start_time).count(), a signed 64-bit count of
\* std::chrono::high_resolution_clock, which need not be steady: the
\* difference can be 0, and negative when the clock was set back
Latencies == (0 - MaxClockStepBack)..MaxLatency

\* static_cast<uint64_t>(latency_ns)
AsUnsigned(d) == d % SizeTMod

\* unsigned subtraction of two size_t values
USub(a, b) == (a - b) % SizeTMod

\* lowest position whose pop has not stored pos + N into its slot
TailReleased ==
    CHOOSE p \in 0..dequeue_pos_ :
        /\ buffer_seq[SlotOf(p)] < p + N
        /\ \A q \in 0..(p - 1) : buffer_seq[SlotOf(q)] >= q + N

\* lowest position whose push has not stored pos + 1 into its slot
HeadPublished ==
    CHOOSE p \in 0..enqueue_pos_ :
        /\ buffer_seq[SlotOf(p)] < p + 1
        /\ \A q \in 0..(p - 1) : buffer_seq[SlotOf(q)] >= q + 1

\* ------------------------------------------------- LockFreeRingBuffer

\* the constructor: every slot's sequence is its index, both cursors 0
RingInit ==
    /\ buffer_seq = [i \in 0..(N - 1) |-> i]
    /\ buffer_data = [i \in 0..(N - 1) |-> NoItem]
    /\ enqueue_pos_ = 0
    /\ dequeue_pos_ = 0

\* mutant: a free slot (seq == pos) is taken for a full ring
PushDiff_OffByOne(s, p) == s - p - 1

\* try_push: diff = (intptr_t)seq - (intptr_t)pos
PushDiff(s, p) == s - p

\* try_push: the sequence stored to publish the slot claimed at p
PushSeqStored(p) == p + 1

\* mutant: seq is compared with pos, so an empty slot is popped
PopDiff_NoPlusOne(s, p) == s - p

\* mutant: a published slot (seq == pos + 1) is taken for an empty ring
PopDiff_PlusTwo(s, p) == s - (p + 2)

\* try_pop: diff = (intptr_t)seq - (intptr_t)(pos + 1)
PopDiff(s, p) == s - (p + 1)

\* mutant: the pop releases the slot with pos + 1, as a push publishes it
PopSeqStored_AsPush(p) == p + 1

\* try_pop: the sequence stored to release the slot claimed at p
PopSeqStored(p) == p + N

\* a call returns r to the label `to`; its locals go out of scope
Return(t, r, to) ==
    /\ ret' = [ret EXCEPT ![t] = r]
    /\ pc' = [pc EXCEPT ![t] = to]
    /\ pos' = [pos EXCEPT ![t] = 0]
    /\ seq' = [seq EXCEPT ![t] = 0]

\* try_push(it) called at label `from`:
\* std::size_t pos = enqueue_pos_.load(relaxed)
PushLoadPos(t, from, it) ==
    /\ pc[t] = from
    /\ item' = [item EXCEPT ![t] = it]
    /\ pos' = [pos EXCEPT ![t] = enqueue_pos_]
    /\ ret' = [ret EXCEPT ![t] = "none"]
    /\ pc' = [pc EXCEPT ![t] = "push_seq"]
    /\ UNCHANGED <<ringVars, seq, pushedAt, poppedAt>>

\* seq = slot->sequence.load(acquire); diff < 0: return false
PushLoadSeq(t, onFalse) ==
    /\ pc[t] = "push_seq"
    /\ LET s == buffer_seq[SlotOf(pos[t])] IN
         IF PushDiff(s, pos[t]) < 0
         THEN /\ Return(t, "false", onFalse)
              /\ item' = [item EXCEPT ![t] = NoItem]
         ELSE /\ seq' = [seq EXCEPT ![t] = s]
              /\ pc' = [pc EXCEPT ![t] = "push_cas"]
              /\ UNCHANGED <<pos, item, ret>>
    /\ UNCHANGED <<ringVars, pushedAt, poppedAt>>

\* mutant: the cursor is stored, not compared and swapped
PushCasWin_NoCompare(t) ==
    /\ pc[t] = "push_cas"
    /\ PushDiff(seq[t], pos[t]) = 0
    /\ enqueue_pos_' = pos[t] + 1
    /\ seq' = [seq EXCEPT ![t] = 0]
    /\ pc' = [pc EXCEPT ![t] = "push_data"]
    /\ UNCHANGED <<buffer_seq, buffer_data, dequeue_pos_, pos, item, ret,
                   pushedAt, poppedAt>>

\* diff == 0 and enqueue_pos_.compare_exchange_weak(pos, pos + 1) succeeds
PushCasWin(t) ==
    /\ pc[t] = "push_cas"
    /\ PushDiff(seq[t], pos[t]) = 0
    /\ enqueue_pos_ = pos[t]
    /\ enqueue_pos_' = pos[t] + 1
    /\ seq' = [seq EXCEPT ![t] = 0]
    /\ pc' = [pc EXCEPT ![t] = "push_data"]
    /\ UNCHANGED <<buffer_seq, buffer_data, dequeue_pos_, pos, item, ret,
                   pushedAt, poppedAt>>

\* mutant: the result of the CAS is ignored and the loop is left
PushCasLose_Break(t) ==
    /\ pc[t] = "push_cas"
    /\ PushDiff(seq[t], pos[t]) = 0
    /\ pos' = [pos EXCEPT ![t] = enqueue_pos_]
    /\ seq' = [seq EXCEPT ![t] = 0]
    /\ pc' = [pc EXCEPT ![t] = "push_data"]
    /\ UNCHANGED <<ringVars, item, ret, pushedAt, poppedAt>>

\* diff == 0 and the CAS fails (another producer moved the cursor, or the
\* weak CAS fails spuriously): pos takes the cursor's value, the loop repeats
PushCasLose(t) ==
    /\ pc[t] = "push_cas"
    /\ PushDiff(seq[t], pos[t]) = 0
    /\ pos' = [pos EXCEPT ![t] = enqueue_pos_]
    /\ seq' = [seq EXCEPT ![t] = 0]
    /\ pc' = [pc EXCEPT ![t] = "push_seq"]
    /\ UNCHANGED <<ringVars, item, ret, pushedAt, poppedAt>>

\* mutant: on diff > 0 the loop repeats with the pos it had
PushReload_KeepPos(t) ==
    /\ pc[t] = "push_cas"
    /\ PushDiff(seq[t], pos[t]) > 0
    /\ seq' = [seq EXCEPT ![t] = 0]
    /\ pc' = [pc EXCEPT ![t] = "push_seq"]
    /\ UNCHANGED <<ringVars, pos, item, ret, pushedAt, poppedAt>>

\* diff > 0: pos = enqueue_pos_.load(relaxed), the loop repeats
PushReload(t) ==
    /\ pc[t] = "push_cas"
    /\ PushDiff(seq[t], pos[t]) > 0
    /\ pos' = [pos EXCEPT ![t] = enqueue_pos_]
    /\ seq' = [seq EXCEPT ![t] = 0]
    /\ pc' = [pc EXCEPT ![t] = "push_seq"]
    /\ UNCHANGED <<ringVars, item, ret, pushedAt, poppedAt>>

\* slot->data = item
PushWriteData(t) ==
    /\ pc[t] = "push_data"
    /\ buffer_data' = [buffer_data EXCEPT ![SlotOf(pos[t])] = item[t]]
    /\ pc' = [pc EXCEPT ![t] = "push_store"]
    /\ UNCHANGED <<buffer_seq, enqueue_pos_, dequeue_pos_, pos, seq, item, ret,
                   pushedAt, poppedAt>>

\* slot->sequence.store(pos + 1, release); return true
PushStoreSeq(t, onTrue) ==
    /\ pc[t] = "push_store"
    /\ buffer_seq' = [buffer_seq EXCEPT ![SlotOf(pos[t])] = PushSeqStored(pos[t])]
    /\ pushedAt' = pushedAt \cup {<<pos[t], item[t]>>}
    /\ Return(t, "true", onTrue)
    /\ item' = [item EXCEPT ![t] = NoItem]
    /\ UNCHANGED <<buffer_data, enqueue_pos_, dequeue_pos_, poppedAt>>

\* try_pop(item) called at label `from`:
\* std::size_t pos = dequeue_pos_.load(relaxed)
PopLoadPos(t, from) ==
    /\ pc[t] = from
    /\ pos' = [pos EXCEPT ![t] = dequeue_pos_]
    /\ ret' = [ret EXCEPT ![t] = "none"]
    /\ pc' = [pc EXCEPT ![t] = "pop_seq"]
    /\ UNCHANGED <<ringVars, seq, item, pushedAt, poppedAt>>

\* seq = slot->sequence.load(acquire); diff < 0: return false
PopLoadSeq(t, onFalse) ==
    /\ pc[t] = "pop_seq"
    /\ LET s == buffer_seq[SlotOf(pos[t])] IN
         IF PopDiff(s, pos[t]) < 0
         THEN Return(t, "false", onFalse)
         ELSE /\ seq' = [seq EXCEPT ![t] = s]
              /\ pc' = [pc EXCEPT ![t] = "pop_cas"]
              /\ UNCHANGED <<pos, ret>>
    /\ UNCHANGED <<ringVars, item, pushedAt, poppedAt>>

\* mutant: the consumer cursor is stored, not compared and swapped
PopCasWin_NoCompare(t) ==
    /\ pc[t] = "pop_cas"
    /\ PopDiff(seq[t], pos[t]) = 0
    /\ dequeue_pos_' = pos[t] + 1
    /\ seq' = [seq EXCEPT ![t] = 0]
    /\ pc' = [pc EXCEPT ![t] = "pop_data"]
    /\ UNCHANGED <<buffer_seq, buffer_data, enqueue_pos_, pos, item, ret,
                   pushedAt, poppedAt>>

\* diff == 0 and dequeue_pos_.compare_exchange_weak(pos, pos + 1) succeeds
PopCasWin(t) ==
    /\ pc[t] = "pop_cas"
    /\ PopDiff(seq[t], pos[t]) = 0
    /\ dequeue_pos_ = pos[t]
    /\ dequeue_pos_' = pos[t] + 1
    /\ seq' = [seq EXCEPT ![t] = 0]
    /\ pc' = [pc EXCEPT ![t] = "pop_data"]
    /\ UNCHANGED <<buffer_seq, buffer_data, enqueue_pos_, pos, item, ret,
                   pushedAt, poppedAt>>

\* diff == 0 and the CAS fails (another consumer moved the cursor, or the
\* weak CAS fails spuriously): pos takes the cursor's value, the loop repeats
PopCasLose(t) ==
    /\ pc[t] = "pop_cas"
    /\ PopDiff(seq[t], pos[t]) = 0
    /\ pos' = [pos EXCEPT ![t] = dequeue_pos_]
    /\ seq' = [seq EXCEPT ![t] = 0]
    /\ pc' = [pc EXCEPT ![t] = "pop_seq"]
    /\ UNCHANGED <<ringVars, item, ret, pushedAt, poppedAt>>

\* diff > 0: pos = dequeue_pos_.load(relaxed), the loop repeats
PopReload(t) ==
    /\ pc[t] = "pop_cas"
    /\ PopDiff(seq[t], pos[t]) > 0
    /\ pos' = [pos EXCEPT ![t] = dequeue_pos_]
    /\ seq' = [seq EXCEPT ![t] = 0]
    /\ pc' = [pc EXCEPT ![t] = "pop_seq"]
    /\ UNCHANGED <<ringVars, item, ret, pushedAt, poppedAt>>

\* item = slot->data
PopReadData(t) ==
    /\ pc[t] = "pop_data"
    /\ item' = [item EXCEPT ![t] = buffer_data[SlotOf(pos[t])]]
    /\ pc' = [pc EXCEPT ![t] = "pop_store"]
    /\ UNCHANGED <<ringVars, pos, seq, ret, pushedAt, poppedAt>>

\* slot->sequence.store(pos + N, release); return true
PopStoreSeq(t, onTrue) ==
    /\ pc[t] = "pop_store"
    /\ buffer_seq' = [buffer_seq EXCEPT ![SlotOf(pos[t])] = PopSeqStored(pos[t])]
    /\ poppedAt' = poppedAt \cup {<<pos[t], item[t]>>}
    /\ Return(t, "true", onTrue)
    /\ UNCHANGED <<buffer_data, enqueue_pos_, dequeue_pos_, item, pushedAt>>

\* size(): enq_pos = enqueue_pos_.load(relaxed)
SizeLoadEnq(t, from) ==
    /\ pc[t] = from
    /\ pos' = [pos EXCEPT ![t] = enqueue_pos_]
    /\ pc' = [pc EXCEPT ![t] = "size_deq"]
    /\ UNCHANGED <<ringVars, seq, item, ret, pushedAt, poppedAt, sizeRet, utilRet>>

\* size(): deq_pos = dequeue_pos_.load(relaxed); return enq_pos - deq_pos
SizeLoadDeq(t, to) ==
    /\ pc[t] = "size_deq"
    /\ sizeRet' = USub(pos[t], dequeue_pos_)
    /\ pos' = [pos EXCEPT ![t] = 0]
    /\ pc' = [pc EXCEPT ![t] = to]
    /\ UNCHANGED <<ringVars, seq, item, ret, pushedAt, poppedAt, utilRet>>

\* utilization(): enq_pos = enqueue_pos_.load(relaxed)
UtilLoadEnq(t, from) ==
    /\ pc[t] = from
    /\ pos' = [pos EXCEPT ![t] = enqueue_pos_]
    /\ pc' = [pc EXCEPT ![t] = "util_deq"]
    /\ UNCHANGED <<ringVars, seq, item, ret, pushedAt, poppedAt, sizeRet, utilRet>>

\* utilization(): deq_pos = dequeue_pos_.load(relaxed);
\* return static_cast<double>(enq_pos - deq_pos) / N   (utilRet is the numerator)
UtilLoadDeq(t, to) ==
    /\ pc[t] = "util_deq"
    /\ utilRet' = USub(pos[t], dequeue_pos_)
    /\ pos' = [pos EXCEPT ![t] = 0]
    /\ pc' = [pc EXCEPT ![t] = to]
    /\ UNCHANGED <<ringVars, seq, item, ret, pushedAt, poppedAt, sizeRet>>

\* ------------------------------------------------------- call histories

PushActive == {"push_seq", "push_cas", "push_data", "push_store"}

PopActive == {"pop_seq", "pop_cas", "pop_data", "pop_store"}

\* enqueue_pos_ - dequeue_pos_ == N
CursorsFull == enqueue_pos_ - dequeue_pos_ = N

\* every slot is claimed by a push and not yet released by its pop
NoFreeSlot == enqueue_pos_ - TailReleased = N

\* enqueue_pos_ == dequeue_pos_
CursorsEqual == enqueue_pos_ = dequeue_pos_

\* the slot at the consumer cursor holds no published item
NothingPublished == dequeue_pos_ = HeadPublished

\* t's call returns false in this step
ReturnsFalse(t, active) == pc[t] \in active /\ pc'[t] \notin active /\ ret'[t] = "false"

\* t enters a call in this step
Enters(t, active) == pc[t] \notin active /\ pc'[t] \in active

\* whether `now` holds at the instant t's call finds it must return false
AtFail(t, active, old, now) ==
    IF ReturnsFalse(t, active) THEN now
    ELSE IF Enters(t, active) THEN FALSE
    ELSE old[t]

\* whether `now` held at some instant of t's current call, or of its last
\* call when t is in none
Track(t, active, old, now) ==
    IF pc'[t] \in active THEN (pc[t] \in active /\ old[t]) \/ now
    ELSE old[t]

\* what the failing load of a call saw
SeenAtFail ==
    /\ occSeen' = [t \in AllThreads |-> AtFail(t, PushActive, occSeen, NoFreeSlot)]
    /\ unpubSeen' = [t \in AllThreads |->
                       AtFail(t, PopActive, unpubSeen, NothingPublished)]

\* what held at some instant of a call
SeenDuringCall ==
    /\ fullSeen' = [t \in AllThreads |->
                      Track(t, PushActive, fullSeen, CursorsFull')]
    /\ emptySeen' = [t \in AllThreads |->
                      Track(t, PopActive, emptySeen, CursorsEqual')]

\* --------------------------------------------- Spec: threads on the ring

\* what every step of a ring thread leaves alone or records
RingFrame ==
    /\ UNCHANGED <<sizeRet, utilRet>>
    /\ SeenAtFail
    /\ IF tracking THEN SeenDuringCall ELSE UNCHANGED <<fullSeen, emptySeen>>
    /\ UNCHANGED <<tracking, quota, latencies, appVars>>

\* what every step of the watcher leaves alone
WatchFrame ==
    /\ UNCHANGED <<auxVars, appVars>>

\* a producer thread calls try_push with its next element
ProducerPushLoadPos(t) ==
    /\ next[t] <= quota
    /\ PushLoadPos(t, "idle", Item(t, next[t]))
    /\ UNCHANGED next
    /\ RingFrame

\* ... and goes on to its next element when the call returns
ProducerPushLoadSeq(t) ==
    /\ PushLoadSeq(t, "idle")
    /\ next' = [next EXCEPT ![t] = IF pc'[t] = "idle" THEN @ + 1 ELSE @]
    /\ RingFrame

ProducerPushCasWin(t) == PushCasWin(t) /\ UNCHANGED next /\ RingFrame

ProducerPushCasLose(t) == PushCasLose(t) /\ UNCHANGED next /\ RingFrame

ProducerPushReload(t) == PushReload(t) /\ UNCHANGED next /\ RingFrame

ProducerPushWriteData(t) == PushWriteData(t) /\ UNCHANGED next /\ RingFrame

ProducerPushStoreSeq(t) ==
    /\ PushStoreSeq(t, "idle")
    /\ next' = [next EXCEPT ![t] = @ + 1]
    /\ RingFrame

\* a consumer thread calls try_pop again and again
ConsumerPopLoadPos(t) == PopLoadPos(t, "idle") /\ UNCHANGED next /\ RingFrame

ConsumerPopLoadSeq(t) == PopLoadSeq(t, "idle") /\ UNCHANGED next /\ RingFrame

ConsumerPopCasWin(t) == PopCasWin(t) /\ UNCHANGED next /\ RingFrame

ConsumerPopCasLose(t) == PopCasLose(t) /\ UNCHANGED next /\ RingFrame

ConsumerPopReload(t) == PopReload(t) /\ UNCHANGED next /\ RingFrame

ConsumerPopReadData(t) == PopReadData(t) /\ UNCHANGED next /\ RingFrame

ConsumerPopStoreSeq(t) == PopStoreSeq(t, "idle") /\ UNCHANGED next /\ RingFrame

LocalInit ==
    /\ pc = [t \in AllThreads |-> "idle"]
    /\ pos = [t \in AllThreads |-> 0]
    /\ seq = [t \in AllThreads |-> 0]
    /\ item = [t \in AllThreads |-> NoItem]
    /\ ret = [t \in AllThreads |-> "none"]

HistInit ==
    /\ pushedAt = {}
    /\ poppedAt = {}
    /\ fullSeen = [t \in AllThreads |-> FALSE]
    /\ occSeen = [t \in AllThreads |-> FALSE]
    /\ emptySeen = [t \in AllThreads |-> FALSE]
    /\ unpubSeen = [t \in AllThreads |-> FALSE]

\* PerformanceMetrics: six counters, all 0
MetricsInit ==
    [messages_received |-> 0, messages_processed |-> 0, total_latency_ns |-> 0,
     max_latency_ns |-> 0, buffer_overruns |-> 0, buffer_underruns |-> 0]

\* a DatabentoHandler just constructed, over a source of n records,
\* and the flag of main.cpp
AppInit(n) ==
    /\ is_fetching_ = FALSE
    /\ fetch_thread_ = "null"
    /\ metrics_ = MetricsInit
    /\ running = TRUE
    /\ errors = <<>>
    /\ rec = [t \in Fetchers |-> 1]
    /\ fetchNo = 0
    /\ lat = [t \in AllThreads |-> 0]
    /\ cmax = [t \in AllThreads |-> 0]
    /\ wschema = [t \in Fetchers |-> "bbo-1s"]
    /\ ri = [t \in Fetchers |-> 0]
    /\ numRecords = [t \in Fetchers |-> IF t = Worker THEN n ELSE FetchRecords]
    /\ stopRec = -1
    /\ callLog = <<>>
    /\ apiKey = "db-key"
    /\ wait_count = 0
    /\ exitCode = -1
    /\ drainDue = FALSE
    /\ error_callback_ = FALSE

InitWith(track, q) ==
    /\ RingInit
    /\ LocalInit
    /\ HistInit
    /\ next = [t \in AllThreads |-> 1]
    /\ sizeRet = 0
    /\ utilRet = 0
    /\ tracking = track
    /\ latencies = Latencies
    /\ quota = q
    /\ AppInit(0)

Init == InitWith(FALSE, MaxPush)

Next ==
    \/ \E t \in Producers : ProducerPushLoadPos(t)
    \/ \E t \in Producers : ProducerPushLoadSeq(t)
    \/ \E t \in Producers : ProducerPushCasWin(t)
    \/ \E t \in Producers : ProducerPushCasLose(t)
    \/ \E t \in Producers : ProducerPushReload(t)
    \/ \E t \in Producers : ProducerPushWriteData(t)
    \/ \E t \in Producers : ProducerPushStoreSeq(t)
    \/ \E t \in Consumers : ConsumerPopLoadPos(t)
    \/ \E t \in Consumers : ConsumerPopLoadSeq(t)
    \/ \E t \in Consumers : ConsumerPopCasWin(t)
    \/ \E t \in Consumers : ConsumerPopCasLose(t)
    \/ \E t \in Consumers : ConsumerPopReload(t)
    \/ \E t \in Consumers : ConsumerPopReadData(t)
    \/ \E t \in Consumers : ConsumerPopStoreSeq(t)

\* producers and consumers on one ring
Spec == Init /\ [][Next]_vars

\* Spec with the history of what held during each call
InitCalls == InitWith(TRUE, MaxPush)

SpecCalls == InitCalls /\ [][Next]_vars

\* a thread that watches the ring through size() and utilization()
WatcherSizeLoadEnq == SizeLoadEnq(Observer, "idle") /\ WatchFrame

WatcherSizeLoadDeq == SizeLoadDeq(Observer, "idle") /\ WatchFrame

WatcherUtilLoadEnq == UtilLoadEnq(Observer, "idle") /\ WatchFrame

WatcherUtilLoadDeq == UtilLoadDeq(Observer, "idle") /\ WatchFrame

InitWatch == InitWith(FALSE, WatchPush)

NextWatch ==
    \/ Next
    \/ WatcherSizeLoadEnq
    \/ WatcherSizeLoadDeq
    \/ WatcherUtilLoadEnq
    \/ WatcherUtilLoadDeq

\* producers, consumers and a watcher on one ring
SpecWatch == InitWatch /\ [][NextWatch]_vars

\* ------------------------------------------------------------ ring claims

\* no thread is inside a ring call
Quiescent == \A t \in RingThreads : pc[t] = "idle"

\* the pops that have claimed a position, with the item each returns
ClaimedPops ==
    poppedAt
    \cup {<<pos[t], buffer_data[SlotOf(pos[t])]>> :
            t \in {u \in Consumers : pc[u] = "pop_data"}}
    \cup {<<pos[t], item[t]>> : t \in {u \in Consumers : pc[u] = "pop_store"}}

\* C1: every successfully pushed item is popped at most once, every popped
\* item was pushed successfully before, and once the threads are quiescent
\* and the ring is drained every pushed item has been popped exactly once.
C1_ExactlyOnce ==
    /\ \A a \in ClaimedPops : \A b \in ClaimedPops : a[2] = b[2] => a = b
    /\ poppedAt \subseteq pushedAt
    /\ \A a \in ClaimedPops : \E b \in pushedAt : a[2] = b[2]
    /\ (Quiescent /\ enqueue_pos_ = dequeue_pos_) =>
          {a[2] : a \in poppedAt} = {a[2] : a \in pushedAt}

\* C1 witness: all four items were pushed and popped, the slots reused
C1_Witness ==
    /\ Quiescent
    /\ enqueue_pos_ = dequeue_pos_
    /\ Cardinality(poppedAt) = 2 * N
    /\ {a[2] : a \in poppedAt} = {Item(t, k) : t \in Producers, k \in 1..MaxPush}

\* C2: two items A, B of one producer, A pushed before B, are claimed by
\* their pops in that order of consumer-cursor positions; and the item
\* popped at a position is the item pushed at that position, so that one
\* producer and one consumer see the pushed sequence popped unchanged.
C2_FifoPerProducer ==
    /\ \A a \in ClaimedPops : \A b \in ClaimedPops :
          (a[2].src = b[2].src /\ a[2].k < b[2].k) => a[1] < b[1]
    /\ \A a \in pushedAt : \A b \in pushedAt :
          (a[2].src = b[2].src /\ a[2].k < b[2].k) => a[1] < b[1]
    /\ \A a \in ClaimedPops : a \in pushedAt

\* C2 witness: item 1 of p1 and then an item of p2 were popped, and item 2
\* of p1 is claimed by a pop that has not returned yet
C2_Witness ==
    \E a \in poppedAt : \E c \in poppedAt : \E b \in ClaimedPops \ poppedAt :
        /\ a[2] = Item("p1", 1) /\ b[2] = Item("p1", 2) /\ c[2].src = "p2"
        /\ a[1] < c[1] /\ c[1] < b[1]

\* C3: when no call is in progress, the pushes that returned true are the
\* pops that returned true plus size().
C3_Conservation ==
    Quiescent =>
        Cardinality(pushedAt) =
            Cardinality(poppedAt) + USub(enqueue_pos_, dequeue_pos_)

\* C3 witness: quiescent with items in the ring and items popped
C3_Witness ==
    /\ Quiescent
    /\ Cardinality(poppedAt) = 2
    /\ Cardinality(pushedAt) = 3

\* C4 (as claimed): size() returns at most N and utilization() at most 1.0,
\* also when the call runs concurrently with pushes and pops.
C4_SizeWithinCapacity == sizeRet <= N /\ utilRet <= N

\* C6 (as claimed): a try_push that returned false saw, at some instant of
\* the call, enqueue_pos_ - dequeue_pos_ = N.
C6_FalseOnlyIfCursorsFull ==
    \A t \in Producers : (pc[t] = "idle" /\ ret[t] = "false") => fullSeen[t]

\* C6 (amended): when try_push finds it must return false, no slot is free:
\* enqueue_pos_ minus the lowest position whose pop has not released its
\* slot is N.
C6_FalseOnlyIfNoFreeSlot ==
    \A t \in Producers : (pc[t] = "idle" /\ ret[t] = "false") => occSeen[t]

\* C6 witness: a try_push returned false while the cursors were never N apart
C6_Witness ==
    \E t \in Producers : pc[t] = "idle" /\ ret[t] = "false" /\ ~fullSeen[t]

\* C7 (as claimed): a try_pop that returned false saw, at some instant of
\* the call, enqueue_pos_ = dequeue_pos_.
C7_FalseOnlyIfCursorsEqual ==
    \A t \in Consumers : (pc[t] = "idle" /\ ret[t] = "false") => emptySeen[t]

\* C7 (amended): when try_pop finds it must return false, the slot at the
\* consumer cursor holds no published item: dequeue_pos_ is the lowest
\* position whose push has not published its slot.
C7_FalseOnlyIfNothingPublished ==
    \A t \in Consumers : (pc[t] = "idle" /\ ret[t] = "false") => unpubSeen[t]

\* C7 witness: a try_pop returned false while the cursors were never equal
C7_Witness ==
    \E t \in Consumers : pc[t] = "idle" /\ ret[t] = "false" /\ ~emptySeen[t]

\* --------------------------------------------------- DatabentoHandler

\* what the steps of the handler's threads share with no ring harness
coreVars == <<ringVars, pos, seq, item, ret, pushedAt, poppedAt>>

\* the schemas FetchHistoricalBBO accepts
SupportedSchemas == {"bbo-1s", "bbo-1m"}

\* the schema arguments tried: a supported one and an unsupported one
Schemas == {"bbo-1s", "mbo"}

\* the order in which PerformanceMetrics::Reset stores 0
ResetOrder ==
    <<"messages_received", "messages_processed", "total_latency_ns",
      "max_latency_ns", "buffer_overruns", "buffer_underruns">>

\* counter.fetch_add(d) on a std::atomic<uint64_t>: d is converted to
\* unsigned and the sum wraps
FetchAdd(m, counter, d) == [m EXCEPT ![counter] = (@ + d) % SizeTMod]

\* if (error_callback_) { error_callback_(msg); } on the thread that also
\* calls SetErrorCallback: no assignment can be under way
Report(msg) == IF error_callback_ THEN Append(errors, msg) ELSE errors

\* the client is inside SetErrorCallback: error_callback_ = callback is under
\* way, with a callable ("cb_set") or an empty std::function ("cb_clear")
Assigning == pc[Client] \in {"cb_set", "cb_clear"}

\* what if (error_callback_) can read: the member, or, racing with an
\* assignment, the old or the new value
CallbackSeen ==
    IF Assigning THEN {error_callback_, pc[Client] = "cb_set"} ELSE {error_callback_}

\* what error_callback_(msg) can do: call the callable; throw
\* std::bad_function_call when the std::function is empty; and, racing with
\* an assignment, also go through a half-written or destroyed target
CallOutcomes ==
    IF ~Assigning THEN (IF error_callback_ THEN {"called"} ELSE {"bad_function_call"})
    ELSE IF error_callback_ /\ pc[Client] = "cb_set" THEN {"called", "fault"}
    ELSE IF error_callback_ \/ pc[Client] = "cb_set"
         THEN {"called", "bad_function_call", "fault"}
    ELSE {"bad_function_call"}

\* the process is killed (SIGSEGV, or std::terminate): every thread ends
ProcessKilled == pc' = [t \in AllThreads |-> "dead"]

\* the worker is inside TimeseriesGetRange, at or between records
InRecordLoop ==
    pc[Worker] \notin {"off", "w_exit", "w_start", "w_reset", "w_catch", "w_catch_test",
                       "w_catch_call", "w_async_test", "w_async_call", "w_final",
                       "dead"}

\* the index (1..) of the record the worker is processing; between two
\* records, that of the record it processed last (0 before the first)
CurrentRec == IF pc[Worker] = "w_rec" THEN rec[Worker] - 1 ELSE rec[Worker]

\* AsyncFetchWorker: is_fetching_ = true
WorkerSetFlag ==
    /\ pc[Worker] = "w_start"
    /\ is_fetching_' = TRUE
    /\ ri' = [ri EXCEPT ![Worker] = 0]
    /\ pc' = [pc EXCEPT ![Worker] = "w_reset"]
    /\ UNCHANGED <<coreVars, sizeRet, utilRet, auxVars, fetch_thread_, metrics_,
                   running, errors, rec, fetchNo, lat, cmax, wschema, numRecords,
                   stopRec, callerVars>>

\* where FetchHistoricalBBO returns to: AsyncFetchWorker, or the client
FetchReturns(t) == IF t = Worker THEN "w_final" ELSE "idle"

\* FetchHistoricalBBO returns r
FetchReturn(t, r) ==
    /\ ret' = [ret EXCEPT ![t] = r]
    /\ pc' = [pc EXCEPT ![t] = FetchReturns(t)]

\* where an exception leaving FetchHistoricalBBO is caught: AsyncFetchWorker's
\* catch block, or the client
FetchUnwinds(t) == IF t = Worker THEN "w_async_test" ELSE "idle"

\* an exception leaves FetchHistoricalBBO
FetchThrow(t) ==
    /\ ret' = [ret EXCEPT ![t] = "exception"]
    /\ pc' = [pc EXCEPT ![t] = FetchUnwinds(t)]

\* FetchHistoricalBBO: metrics_.Reset(), one store at a time; after the last
\* store the schema is checked and an unsupported one throws
WorkerReset(t) ==
    /\ pc[t] = "w_reset"
    /\ metrics_' = [metrics_ EXCEPT ![ResetOrder[ri[t] + 1]] = 0]
    /\ IF ri[t] + 1 < Len(ResetOrder)
       THEN ri' = [ri EXCEPT ![t] = @ + 1] /\ UNCHANGED pc
       ELSE /\ ri' = [ri EXCEPT ![t] = 0]
            /\ pc' = [pc EXCEPT ![t] =
                        IF wschema[t] \in SupportedSchemas THEN "w_rec" ELSE "w_catch"]
    /\ UNCHANGED <<coreVars, sizeRet, utilRet, auxVars, is_fetching_, fetch_thread_,
                   running, errors, rec, fetchNo, lat, cmax, wschema, numRecords,
                   stopRec, callerVars>>

\* FetchHistoricalBBO, catch (const std::exception& e): is_fetching_ = false
WorkerCatch(t) ==
    /\ pc[t] = "w_catch"
    /\ is_fetching_' = FALSE
    /\ pc' = [pc EXCEPT ![t] = "w_catch_test"]
    /\ UNCHANGED <<coreVars, sizeRet, utilRet, auxVars, fetch_thread_, metrics_,
                   running, errors, workerVars, callerVars>>

\* TimeseriesGetRange throws between two records; catch: is_fetching_ = false
WorkerSourceThrows(t) ==
    /\ pc[t] = "w_rec"
    /\ is_fetching_' = FALSE
    /\ pc' = [pc EXCEPT ![t] = "w_catch_test"]
    /\ UNCHANGED <<coreVars, sizeRet, utilRet, auxVars, fetch_thread_, metrics_,
                   running, errors, workerVars, callerVars>>

\* FetchHistoricalBBO, catch: if (error_callback_); without a callable,
\* return false
WorkerCatchTest(t) ==
    /\ pc[t] = "w_catch_test"
    /\ \E callable \in CallbackSeen :
          IF callable
          THEN pc' = [pc EXCEPT ![t] = "w_catch_call"] /\ UNCHANGED ret
          ELSE FetchReturn(t, "false")
    /\ UNCHANGED <<ringVars, pos, seq, item, pushedAt, poppedAt, sizeRet, utilRet,
                   auxVars, handlerVars, workerVars, callerVars>>

\* FetchHistoricalBBO, catch: error_callback_(oss.str()); return false;
\* a std::bad_function_call leaves the function
WorkerCatchCall(t) ==
    /\ pc[t] = "w_catch_call"
    /\ \E o \in CallOutcomes :
          CASE o = "called" ->
                 errors' = Append(errors, "fetch_failed") /\ FetchReturn(t, "false")
            [] o = "bad_function_call" -> FetchThrow(t) /\ UNCHANGED errors
            [] o = "fault" -> ProcessKilled /\ UNCHANGED <<ret, errors>>
    /\ UNCHANGED <<ringVars, pos, seq, item, pushedAt, poppedAt, sizeRet, utilRet,
                   auxVars, is_fetching_, fetch_thread_, metrics_, running,
                   workerVars, callerVars>>

\* AsyncFetchWorker, catch (const std::exception& e): if (error_callback_)
WorkerAsyncCatchTest ==
    /\ pc[Worker] = "w_async_test"
    /\ \E callable \in CallbackSeen :
          pc' = [pc EXCEPT ![Worker] = IF callable THEN "w_async_call" ELSE "w_final"]
    /\ UNCHANGED <<coreVars, sizeRet, utilRet, auxVars, handlerVars, workerVars,
                   callerVars>>

\* AsyncFetchWorker, catch: error_callback_(oss.str()); a
\* std::bad_function_call leaves the thread function: std::terminate
WorkerAsyncCatchCall ==
    /\ pc[Worker] = "w_async_call"
    /\ \E o \in CallOutcomes :
          IF o = "called"
          THEN /\ errors' = Append(errors, "async_failed")
               /\ pc' = [pc EXCEPT ![Worker] = "w_final"]
          ELSE ProcessKilled /\ UNCHANGED errors
    /\ UNCHANGED <<coreVars, sizeRet, utilRet, auxVars, is_fetching_, fetch_thread_,
                   metrics_, running, workerVars, callerVars>>

\* TimeseriesGetRange returns after the last record: is_fetching_ = false;
\* return true
WorkerSourceEnds(t) ==
    /\ pc[t] = "w_rec"
    /\ rec[t] > numRecords[t]
    /\ is_fetching_' = FALSE
    /\ FetchReturn(t, "true")
    /\ UNCHANGED <<ringVars, pos, seq, item, pushedAt, poppedAt, sizeRet, utilRet,
                   auxVars, fetch_thread_, metrics_, running, errors, rec, fetchNo, lat,
                   cmax, wschema, ri, numRecords, stopRec, callerVars>>

\* AsyncFetchWorker: is_fetching_ = false; the thread function returns
WorkerFinalFlag ==
    /\ pc[Worker] = "w_final"
    /\ is_fetching_' = FALSE
    /\ pc' = [pc EXCEPT ![Worker] = "w_exit"]
    /\ UNCHANGED <<coreVars, sizeRet, utilRet, auxVars, fetch_thread_, metrics_,
                   running, errors, rec, fetchNo, lat, cmax, wschema, ri,
                   numRecords, stopRec, callerVars>>

\* what a ring step of the worker or of the consumer thread leaves alone
AppRingFrame == UNCHANGED <<sizeRet, utilRet, auxVars, appVars>>

\* what a returning try_push of the worker leaves alone
WorkerRingFrame ==
    UNCHANGED <<sizeRet, utilRet, fullSeen, occSeen, emptySeen, unpubSeen,
                tracking, quota, latencies, appVars>>

\* process_record -> ProcessBBORecord: record.GetIf<Bbo1MMsg>() is null, the
\* record is passed over
WorkerSkipRecord(t) ==
    /\ pc[t] = "w_rec"
    /\ rec[t] <= numRecords[t]
    /\ rec' = [rec EXCEPT ![t] = @ + 1]
    /\ UNCHANGED <<coreVars, pc, sizeRet, utilRet, auxVars, handlerVars, fetchNo, lat,
                   cmax, wschema, ri, numRecords, stopRec, callerVars>>

\* the MarketDataPoint made of the record t is at: the worker's are numbered
\* through its fetches, a direct caller's by its try_push calls
RecordItem(t) ==
    IF t = Worker THEN Item(t, (fetchNo - 1) * numRecords[t] + rec[t])
    ELSE Item(t, next[t])

\* process_record -> ProcessBBORecord: the next record becomes a
\* MarketDataPoint and data_queue_->try_push(data_point) is called
WorkerPushLoadPos(t) ==
    /\ rec[t] <= numRecords[t]
    /\ PushLoadPos(t, "w_rec", RecordItem(t))
    /\ AppRingFrame

\* next[t] counts the try_push calls of t as they return
WorkerPushLoadSeq(t) ==
    /\ PushLoadSeq(t, "w_over")
    /\ next' = [next EXCEPT ![t] = IF pc'[t] = "w_over" THEN @ + 1 ELSE @]
    /\ WorkerRingFrame

WorkerPushCasWin(t) == PushCasWin(t) /\ AppRingFrame

WorkerPushCasLose(t) == PushCasLose(t) /\ AppRingFrame

\* diff > 0 is read only when another thread pushes as well
WorkerPushReload(t) == PushReload(t) /\ AppRingFrame

WorkerPushWriteData(t) == PushWriteData(t) /\ AppRingFrame

WorkerPushStoreSeq(t) ==
    /\ PushStoreSeq(t, "w_recv")
    /\ next' = [next EXCEPT ![t] = @ + 1]
    /\ WorkerRingFrame

\* the record is done: ProcessBBORecord returns and, in the worker, the
\* source delivers the next one
RecordDone(t) ==
    /\ rec' = IF t \in Fetchers THEN [rec EXCEPT ![t] = @ + 1] ELSE rec
    /\ lat' = [lat EXCEPT ![t] = 0]
    /\ cmax' = [cmax EXCEPT ![t] = 0]

\* the pushes of t that returned true
OwnPushes(t) == Cardinality({e \in pushedAt : e[2].src = t})

\* mutant: messages_received is stored from the thread's own count, not
\* added to
WorkerCountReceived_Store(t) ==
    /\ pc[t] = "w_recv"
    /\ metrics_' = [metrics_ EXCEPT !.messages_received = OwnPushes(t)]
    /\ \E d \in latencies : lat' = [lat EXCEPT ![t] = d]
    /\ pc' = [pc EXCEPT ![t] = "w_proc"]
    /\ UNCHANGED <<coreVars, sizeRet, utilRet, auxVars, is_fetching_, fetch_thread_,
                   running, errors, rec, fetchNo, cmax, wschema, ri, numRecords,
                   stopRec, callerVars>>

\* try_push returned true: metrics_.messages_received.fetch_add(1);
\* latency_ns = end_time - start_time
WorkerCountReceived(t) ==
    /\ pc[t] = "w_recv"
    /\ metrics_' = FetchAdd(metrics_, "messages_received", 1)
    /\ \E d \in latencies : lat' = [lat EXCEPT ![t] = d]
    /\ pc' = [pc EXCEPT ![t] = "w_proc"]
    /\ UNCHANGED <<coreVars, sizeRet, utilRet, auxVars, is_fetching_, fetch_thread_,
                   running, errors, rec, fetchNo, cmax, wschema, ri, numRecords,
                   stopRec, callerVars>>

\* metrics_.messages_processed.fetch_add(1)
WorkerCountProcessed(t) ==
    /\ pc[t] = "w_proc"
    /\ metrics_' = FetchAdd(metrics_, "messages_processed", 1)
    /\ pc' = [pc EXCEPT ![t] = "w_total"]
    /\ UNCHANGED <<coreVars, sizeRet, utilRet, auxVars, is_fetching_, fetch_thread_,
                   running, errors, rec, fetchNo, lat, cmax, wschema, ri,
                   numRecords, stopRec, callerVars>>

\* metrics_.total_latency_ns.fetch_add(latency_ns)
WorkerAddLatency(t) ==
    /\ pc[t] = "w_total"
    /\ metrics_' = FetchAdd(metrics_, "total_latency_ns", lat[t])
    /\ pc' = [pc EXCEPT ![t] = "w_maxload"]
    /\ UNCHANGED <<coreVars, sizeRet, utilRet, auxVars, is_fetching_, fetch_thread_,
                   running, errors, rec, fetchNo, lat, cmax, wschema, ri,
                   numRecords, stopRec, callerVars>>

\* current_max = metrics_.max_latency_ns.load(); the loop is left at once
\* when current_max >= latency_ns
WorkerLoadMax(t) ==
    /\ pc[t] = "w_maxload"
    /\ IF metrics_.max_latency_ns < AsUnsigned(lat[t])
       THEN /\ cmax' = [cmax EXCEPT ![t] = metrics_.max_latency_ns]
            /\ pc' = [pc EXCEPT ![t] = "w_maxcas"]
            /\ UNCHANGED <<rec, lat>>
       ELSE /\ RecordDone(t)
            /\ pc' = [pc EXCEPT ![t] = "w_rec"]
    /\ UNCHANGED <<coreVars, sizeRet, utilRet, auxVars, is_fetching_, fetch_thread_,
                   metrics_, running, errors, fetchNo, wschema, ri, numRecords,
                   stopRec, callerVars>>

\* metrics_.max_latency_ns.compare_exchange_weak(current_max, latency_ns)
\* under current_max < latency_ns
WorkerMaxCas(t) ==
    /\ pc[t] = "w_maxcas"
    /\ IF metrics_.max_latency_ns = cmax[t]
       THEN /\ metrics_' = [metrics_ EXCEPT !.max_latency_ns = AsUnsigned(lat[t])]
            /\ RecordDone(t)
            /\ pc' = [pc EXCEPT ![t] = "w_rec"]
       ELSE /\ IF metrics_.max_latency_ns < AsUnsigned(lat[t])
               THEN /\ cmax' = [cmax EXCEPT ![t] = metrics_.max_latency_ns]
                    /\ UNCHANGED <<rec, lat, pc>>
               ELSE /\ RecordDone(t)
                    /\ pc' = [pc EXCEPT ![t] = "w_rec"]
            /\ UNCHANGED metrics_
    /\ UNCHANGED <<coreVars, sizeRet, utilRet, auxVars, is_fetching_, fetch_thread_,
                   running, errors, fetchNo, wschema, ri, numRecords, stopRec,
                   callerVars>>

\* mutant: a failed push is counted as a received message
WorkerCountOverrun_AsReceived(t) ==
    /\ pc[t] = "w_over"
    /\ metrics_' = FetchAdd(metrics_, "messages_received", 1)
    /\ pc' = [pc EXCEPT ![t] = "w_overload"]
    /\ UNCHANGED <<coreVars, sizeRet, utilRet, auxVars, is_fetching_, fetch_thread_,
                   running, errors, rec, fetchNo, lat, cmax, wschema, ri,
                   numRecords, stopRec, callerVars>>

\* try_push returned false: metrics_.buffer_overruns.fetch_add(1)
WorkerCountOverrun(t) ==
    /\ pc[t] = "w_over"
    /\ metrics_' = FetchAdd(metrics_, "buffer_overruns", 1)
    /\ pc' = [pc EXCEPT ![t] = "w_overload"]
    /\ UNCHANGED <<coreVars, sizeRet, utilRet, auxVars, is_fetching_, fetch_thread_,
                   running, errors, rec, fetchNo, lat, cmax, wschema, ri,
                   numRecords, stopRec, callerVars>>

\* if (metrics_.buffer_overruns.load() % 1000 == 1): the notice is due
WorkerLoadOverruns(t) ==
    /\ pc[t] = "w_overload"
    /\ IF metrics_.buffer_overruns % OVERRUN_NOTICE_EVERY = 1
       THEN /\ pc' = [pc EXCEPT ![t] = "w_util"]
            /\ UNCHANGED <<rec, lat, cmax>>
       ELSE /\ RecordDone(t)
            /\ pc' = [pc EXCEPT ![t] = "w_rec"]
    /\ UNCHANGED <<coreVars, sizeRet, utilRet, auxVars, is_fetching_, fetch_thread_,
                   metrics_, running, errors, fetchNo, wschema, ri, numRecords,
                   stopRec, callerVars>>

\* the notice: data_queue_->utilization() ...
WorkerUtilLoadEnq(t) ==
    /\ UtilLoadEnq(t, "w_util")
    /\ UNCHANGED <<auxVars, appVars>>

\* ... its load of dequeue_pos_
WorkerUtilLoadDeq(t) ==
    /\ UtilLoadDeq(t, "w_notice")
    /\ UNCHANGED <<auxVars, appVars>>

\* the notice: if (error_callback_); without a callable the record is done
WorkerNoticeTest(t) ==
    /\ pc[t] = "w_notice"
    /\ \E callable \in CallbackSeen :
          IF callable
          THEN pc' = [pc EXCEPT ![t] = "w_notice_call"] /\ UNCHANGED <<rec, lat, cmax>>
          ELSE RecordDone(t) /\ pc' = [pc EXCEPT ![t] = "w_rec"]
    /\ UNCHANGED <<coreVars, sizeRet, utilRet, auxVars, handlerVars, fetchNo, wschema,
                   ri, numRecords, stopRec, callerVars>>

\* the notice: error_callback_("Queue overrun detected. ..."); a
\* std::bad_function_call unwinds TimeseriesGetRange into the catch block of
\* FetchHistoricalBBO
WorkerNoticeCall(t) ==
    /\ pc[t] = "w_notice_call"
    /\ \E o \in CallOutcomes :
          CASE o = "called" ->
                 /\ errors' = Append(errors, "overrun")
                 /\ RecordDone(t)
                 /\ pc' = [pc EXCEPT ![t] = "w_rec"]
            [] o = "bad_function_call" ->
                 /\ pc' = [pc EXCEPT ![t] = "w_catch"]
                 /\ UNCHANGED <<errors, rec, lat, cmax>>
            [] o = "fault" -> ProcessKilled /\ UNCHANGED <<errors, rec, lat, cmax>>
    /\ UNCHANGED <<coreVars, sizeRet, utilRet, auxVars, is_fetching_, fetch_thread_,
                   metrics_, running, fetchNo, wschema, ri, numRecords, stopRec,
                   callerVars>>

\* ------------------------------------------------------ consumer_thread

\* while (running.load())
ConsumerLoadRunning ==
    /\ pc[ConsumerThread] = "c_loop"
    /\ pc' = [pc EXCEPT ![ConsumerThread] = IF running THEN "c_pop" ELSE "c_exit"]
    /\ UNCHANGED <<coreVars, sizeRet, utilRet, auxVars, appVars>>

\* queue.try_pop(dp); when it returns false the thread sleeps 100 us
ConsumerThreadPopLoadPos == PopLoadPos(ConsumerThread, "c_pop") /\ AppRingFrame

ConsumerThreadPopLoadSeq == PopLoadSeq(ConsumerThread, "c_loop") /\ AppRingFrame

ConsumerThreadPopCasWin == PopCasWin(ConsumerThread) /\ AppRingFrame

\* consumer_thread is the ring's only consumer, so a CAS of its pop fails
\* only spuriously and diff > 0 is never read
ConsumerThreadPopCasLose == PopCasLose(ConsumerThread) /\ AppRingFrame

ConsumerThreadPopReadData == PopReadData(ConsumerThread) /\ AppRingFrame

ConsumerThreadPopStoreSeq == PopStoreSeq(ConsumerThread, "c_count") /\ AppRingFrame

\* try_pop returned true: metrics.messages_processed.fetch_add(1, relaxed)
ConsumerCountProcessed ==
    /\ pc[ConsumerThread] = "c_count"
    /\ metrics_' = FetchAdd(metrics_, "messages_processed", 1)
    /\ pc' = [pc EXCEPT ![ConsumerThread] = "c_loop"]
    /\ UNCHANGED <<coreVars, sizeRet, utilRet, auxVars, is_fetching_, fetch_thread_,
                   running, errors, workerVars, callerVars>>

\* --------------------------------- StartAsyncFetch / StopAsyncFetch

\* mutant: StopAsyncFetch leaves is_fetching_ as it is
StopStore_NoStore(t, from, to) ==
    /\ pc[t] = from
    /\ stopRec' = IF InRecordLoop /\ stopRec = -1 THEN CurrentRec ELSE stopRec
    /\ pc' = [pc EXCEPT ![t] = to]
    /\ UNCHANGED <<coreVars, sizeRet, utilRet, auxVars, is_fetching_, fetch_thread_,
                   metrics_, running, errors, rec, fetchNo, lat, cmax, wschema, ri,
                   numRecords>>

\* StopAsyncFetch: is_fetching_ = false
StopStore(t, from, to) ==
    /\ pc[t] = from
    /\ is_fetching_' = FALSE
    /\ stopRec' = IF InRecordLoop /\ stopRec = -1 THEN CurrentRec ELSE stopRec
    /\ pc' = [pc EXCEPT ![t] = to]
    /\ UNCHANGED <<coreVars, sizeRet, utilRet, auxVars, fetch_thread_, metrics_,
                   running, errors, rec, fetchNo, lat, cmax, wschema, ri,
                   numRecords>>

\* StopAsyncFetch: if (fetch_thread_ && fetch_thread_->joinable())
\*                     { fetch_thread_->join(); fetch_thread_.reset(); }
StopJoin(t, from, to) ==
    /\ pc[t] = from
    /\ IF fetch_thread_ = "set"
       THEN /\ pc[Worker] = "w_exit"
            /\ fetch_thread_' = "null"
            /\ pc' = [pc EXCEPT ![t] = to, ![Worker] = "off"]
       ELSE /\ pc' = [pc EXCEPT ![t] = to]
            /\ UNCHANGED fetch_thread_
    /\ UNCHANGED <<coreVars, sizeRet, utilRet, auxVars, is_fetching_, metrics_,
                   running, errors, workerVars>>

\* mutant: StartAsyncFetch goes on to restart the fetch whatever it loaded
StartCheck_NoReturn(t, from, to, report) ==
    /\ pc[t] = from
    /\ pc' = [pc EXCEPT ![t] = to]
    /\ UNCHANGED <<coreVars, sizeRet, utilRet, auxVars, handlerVars, workerVars>>

\* StartAsyncFetch: if (is_fetching_.load()), the load
StartCheck(t, from, to, report) ==
    /\ pc[t] = from
    /\ pc' = [pc EXCEPT ![t] = IF is_fetching_ THEN report ELSE to]
    /\ UNCHANGED <<coreVars, sizeRet, utilRet, auxVars, handlerVars, workerVars>>

\* StartAsyncFetch, is_fetching_ was loaded true:
\*     if (error_callback_) { error_callback_("Already fetching data"); } return;
StartReport(t, from, back) ==
    /\ pc[t] = from
    /\ errors' = Report("already")
    /\ pc' = [pc EXCEPT ![t] = back]
    /\ UNCHANGED <<coreVars, sizeRet, utilRet, auxVars, is_fetching_, fetch_thread_,
                   metrics_, running, workerVars>>

\* StartAsyncFetch: fetch_thread_ = std::make_unique<std::thread>(
\*                      &DatabentoHandler::AsyncFetchWorker, this, ..., schema, ...)
StartSpawn(t, from, to, schema) ==
    /\ pc[t] = from
    /\ fetch_thread_' = "set"
    /\ fetchNo' = fetchNo + 1
    /\ rec' = [rec EXCEPT ![Worker] = 1]
    /\ wschema' = [wschema EXCEPT ![Worker] = schema]
    /\ stopRec' = -1
    /\ pc' = [pc EXCEPT ![t] = to, ![Worker] = "w_start"]
    /\ UNCHANGED <<coreVars, sizeRet, utilRet, auxVars, is_fetching_, metrics_,
                   running, errors, lat, cmax, ri, numRecords>>

\* StartAsyncFetch: is_fetching_ = true
StartSetFlag(t, from, to) ==
    /\ pc[t] = from
    /\ is_fetching_' = TRUE
    /\ pc' = [pc EXCEPT ![t] = to]
    /\ UNCHANGED <<coreVars, sizeRet, utilRet, auxVars, fetch_thread_, metrics_,
                   running, errors, workerVars>>

\* ------------------------- SpecHandler: a client of the handler's API

\* the client calls StartAsyncFetch
ClientStartCheck ==
    /\ Len(callLog) < MaxCalls
    /\ StartCheck(Client, "idle", "sa_stop", "sa_report")
    /\ callLog' = Append(callLog, "start")
    /\ UNCHANGED <<apiKey, wait_count, exitCode, drainDue, error_callback_>>

ClientStartReport == StartReport(Client, "sa_report", "idle") /\ UNCHANGED callerVars

ClientStartStopStore == StopStore(Client, "sa_stop", "sa_join") /\ UNCHANGED callerVars

ClientStartStopJoin == StopJoin(Client, "sa_join", "sa_spawn") /\ UNCHANGED callerVars

ClientStartSpawn ==
    /\ \E schema \in Schemas : StartSpawn(Client, "sa_spawn", "sa_flag", schema)
    /\ UNCHANGED callerVars

ClientStartSetFlag == StartSetFlag(Client, "sa_flag", "idle") /\ UNCHANGED callerVars

\* the client calls StopAsyncFetch
ClientStopStore ==
    /\ Len(callLog) < MaxCalls
    /\ StopStore(Client, "idle", "st_join")
    /\ callLog' = Append(callLog, "stop")
    /\ UNCHANGED <<apiKey, wait_count, exitCode, drainDue, error_callback_>>

ClientStopJoin == StopJoin(Client, "st_join", "idle") /\ UNCHANGED callerVars

\* the client calls FetchHistoricalBBO itself: the fetch runs on its thread
ClientFetch ==
    /\ Len(callLog) < MaxCalls
    /\ pc[Client] = "idle"
    /\ \E schema \in Schemas : wschema' = [wschema EXCEPT ![Client] = schema]
    /\ rec' = [rec EXCEPT ![Client] = 1]
    /\ ri' = [ri EXCEPT ![Client] = 0]
    /\ pc' = [pc EXCEPT ![Client] = "w_reset"]
    /\ callLog' = Append(callLog, "fetch")
    /\ UNCHANGED <<coreVars, sizeRet, utilRet, auxVars, handlerVars, fetchNo, lat, cmax,
                   numRecords, stopRec, apiKey, wait_count, exitCode, drainDue,
                   error_callback_>>

\* the steps of a FetchHistoricalBBO call on the client's thread
ClientFetchNext ==
    \/ WorkerReset(Client)
    \/ WorkerCatch(Client)
    \/ WorkerSourceThrows(Client)
    \/ WorkerSourceEnds(Client)
    \/ WorkerSkipRecord(Client)
    \/ WorkerPushLoadPos(Client)
    \/ WorkerPushLoadSeq(Client)
    \/ WorkerPushCasWin(Client)
    \/ WorkerPushCasLose(Client)
    \/ WorkerPushReload(Client)
    \/ WorkerPushWriteData(Client)
    \/ WorkerPushStoreSeq(Client)
    \/ WorkerCountReceived(Client)
    \/ WorkerCountProcessed(Client)
    \/ WorkerAddLatency(Client)
    \/ WorkerLoadMax(Client)
    \/ WorkerMaxCas(Client)
    \/ WorkerCountOverrun(Client)
    \/ WorkerLoadOverruns(Client)
    \/ WorkerUtilLoadEnq(Client)
    \/ WorkerUtilLoadDeq(Client)
    \/ WorkerNoticeTest(Client)
    \/ WorkerNoticeCall(Client)
    \/ WorkerCatchTest(Client)
    \/ WorkerCatchCall(Client)

\* the client calls SetErrorCallback with a callable, or with an empty
\* std::function: the assignment begins
ClientSetErrorCallback ==
    /\ Len(callLog) < MaxCalls
    /\ pc[Client] = "idle"
    /\ \E callback \in BOOLEAN :
          pc' = [pc EXCEPT ![Client] = IF callback THEN "cb_set" ELSE "cb_clear"]
    /\ callLog' = Append(callLog, "callback")
    /\ UNCHANGED <<coreVars, sizeRet, utilRet, auxVars, handlerVars, workerVars,
                   apiKey, wait_count, exitCode, drainDue, error_callback_>>

\* SetErrorCallback: error_callback_ = callback is complete; the call returns
ClientAssignCallback ==
    /\ Assigning
    /\ error_callback_' = (pc[Client] = "cb_set")
    /\ pc' = [pc EXCEPT ![Client] = "idle"]
    /\ UNCHANGED <<coreVars, sizeRet, utilRet, auxVars, handlerVars, workerVars,
                   callLog, apiKey, wait_count, exitCode, drainDue>>

WorkerFetchNext ==
    \/ WorkerSetFlag
    \/ WorkerReset(Worker)
    \/ WorkerSourceThrows(Worker)
    \/ WorkerSourceEnds(Worker)
    \/ WorkerFinalFlag
    \/ WorkerSkipRecord(Worker)
    \/ WorkerPushLoadPos(Worker)
    \/ WorkerPushLoadSeq(Worker)
    \/ WorkerPushCasWin(Worker)
    \/ WorkerPushCasLose(Worker)
    \/ WorkerPushWriteData(Worker)
    \/ WorkerPushStoreSeq(Worker)
    \/ WorkerCountReceived(Worker)
    \/ WorkerCountProcessed(Worker)
    \/ WorkerAddLatency(Worker)
    \/ WorkerLoadMax(Worker)
    \/ WorkerMaxCas(Worker)
    \/ WorkerCountOverrun(Worker)
    \/ WorkerLoadOverruns(Worker)
    \/ WorkerUtilLoadEnq(Worker)
    \/ WorkerUtilLoadDeq(Worker)
    \/ WorkerNoticeTest(Worker)
    \/ WorkerNoticeCall(Worker)
    \/ WorkerCatchTest(Worker)
    \/ WorkerCatchCall(Worker)

\* with the throw of an unsupported schema
WorkerNext == WorkerFetchNext \/ WorkerCatch(Worker)

\* a std::bad_function_call reaches AsyncFetchWorker only when the callback is
\* emptied while the worker runs
WorkerAsyncCatchNext == WorkerAsyncCatchTest \/ WorkerAsyncCatchCall

ConsumerThreadNext ==
    \/ ConsumerLoadRunning
    \/ ConsumerThreadPopLoadPos
    \/ ConsumerThreadPopLoadSeq
    \/ ConsumerThreadPopCasWin
    \/ ConsumerThreadPopCasLose
    \/ ConsumerThreadPopReadData
    \/ ConsumerThreadPopStoreSeq
    \/ ConsumerCountProcessed

\* a client that keeps to StartAsyncFetch, StopAsyncFetch and SetErrorCallback
AsyncClientNext ==
    \/ ClientStartCheck
    \/ ClientStartReport
    \/ ClientStartStopStore
    \/ ClientStartStopJoin
    \/ ClientStartSpawn
    \/ ClientStartSetFlag
    \/ ClientStopStore
    \/ ClientStopJoin
    \/ ClientSetErrorCallback
    \/ ClientAssignCallback

\* a client of the whole public interface
ClientNext ==
    \/ AsyncClientNext
    \/ ClientFetch
    \/ ClientFetchNext

\* a handler as constructed, over a source of n records; nothing pops
InitClient(n) ==
    /\ RingInit
    /\ HistInit
    /\ pc = [t \in AllThreads |-> IF t \in {Worker, ConsumerThread} THEN "off"
                                  ELSE "idle"]
    /\ pos = [t \in AllThreads |-> 0]
    /\ seq = [t \in AllThreads |-> 0]
    /\ item = [t \in AllThreads |-> NoItem]
    /\ ret = [t \in AllThreads |-> "none"]
    /\ next = [t \in AllThreads |-> 1]
    /\ sizeRet = 0
    /\ utilRet = 0
    /\ tracking = FALSE
    /\ latencies = Latencies
    /\ quota = 0
    /\ AppInit(n)

InitHandler == InitClient(HandlerRecords)

\* the worker reads diff > 0 when the client pushes as well
NextHandler ==
    WorkerNext \/ WorkerAsyncCatchNext \/ WorkerPushReload(Worker) \/ ClientNext

\* a client of the public interface and the fetch worker on one handler
SpecHandler == InitHandler /\ [][NextHandler]_vars

InitAsync == InitClient(AsyncRecords)

NextAsync == WorkerNext \/ WorkerAsyncCatchNext \/ AsyncClientNext

\* a client of the asynchronous interface and the fetch worker: the worker
\* is the ring's only producer
SpecAsync == InitAsync /\ [][NextAsync]_vars

\* ----------------------------------------------------------------- main

\* the values of DATABENTO_API_KEY tried
ApiKeys == {"unset", "", "db-key"}

\* CreateFromEnv: throws when the variable is absent or empty
CreateFromEnvThrows == apiKey \in {"unset", ""}

\* config::SCHEMA
SCHEMA == "bbo-1s"

\* the settings of config::SCHEMA tried: the shipped one and an unsupported one
ConfiguredSchemas == {SCHEMA, "mbo"}

\* what a step of main leaves alone besides pc and what it names
MainFrame == UNCHANGED <<coreVars, sizeRet, utilRet, auxVars, workerVars, callLog, apiKey>>

\* main: CreateFromEnv throws -> catch, return 1
MainCreateFails ==
    /\ pc[Main] = "idle"
    /\ CreateFromEnvThrows
    /\ exitCode' = 1
    /\ pc' = [pc EXCEPT ![Main] = "m_done"]
    /\ UNCHANGED <<handlerVars, wait_count, drainDue, error_callback_>>
    /\ MainFrame

\* main: CreateFromEnv, handler->SetErrorCallback(...),
\* std::thread consumer(consumer_thread, ...)
MainCreate ==
    /\ pc[Main] = "idle"
    /\ ~CreateFromEnvThrows
    /\ pc' = [pc EXCEPT ![Main] = "m_start", ![ConsumerThread] = "c_loop"]
    /\ error_callback_' = TRUE
    /\ UNCHANGED <<handlerVars, wait_count, exitCode, drainDue>>
    /\ MainFrame

\* main: handler->StartAsyncFetch(dataset, symbols, start_time, end_time, schema);
\* no fetch was started before, so the load reads false and the report of
\* lines 129-131 is not reached
MainStartCheck ==
    StartCheck(Main, "m_start", "m_sa_stop", "m_sa_report") /\ UNCHANGED callerVars

MainStartStopStore == StopStore(Main, "m_sa_stop", "m_sa_join") /\ UNCHANGED callerVars

MainStartStopJoin == StopJoin(Main, "m_sa_join", "m_sa_spawn") /\ UNCHANGED callerVars

\* wschema holds the configured schema from the start of the process
MainStartSpawn ==
    StartSpawn(Main, "m_sa_spawn", "m_sa_flag", wschema[Worker]) /\ UNCHANGED callerVars

MainStartSetFlag == StartSetFlag(Main, "m_sa_flag", "m_wait") /\ UNCHANGED callerVars

\* while (handler->IsFetching() && ...): the load of is_fetching_
MainWaitFetching ==
    /\ pc[Main] = "m_wait"
    /\ pc' = [pc EXCEPT ![Main] = IF is_fetching_ THEN "m_wait_run" ELSE "m_after"]
    /\ UNCHANGED <<handlerVars, wait_count, exitCode, drainDue, error_callback_>>
    /\ MainFrame

\* while (... && running.load()): the load of running; in the body main
\* sleeps for 1 s
MainWaitRunning ==
    /\ pc[Main] = "m_wait_run"
    /\ pc' = [pc EXCEPT ![Main] = IF running THEN "m_sleep" ELSE "m_after"]
    /\ UNCHANGED <<handlerVars, wait_count, exitCode, drainDue, error_callback_>>
    /\ MainFrame

\* main wakes: wait_count++;
\* if (wait_count > config::FETCH_TIMEOUT_SECONDS) break;
MainWaitWake ==
    /\ pc[Main] = "m_sleep"
    /\ wait_count' = wait_count + 1
    /\ pc' = [pc EXCEPT ![Main] =
                IF wait_count + 1 > FETCH_TIMEOUT_SECONDS THEN "m_after" ELSE "m_wait"]
    /\ UNCHANGED <<handlerVars, exitCode, drainDue, error_callback_>>
    /\ MainFrame

\* if (!handler->IsFetching()) { sleep 5 s }
MainSettle ==
    /\ pc[Main] = "m_after"
    /\ pc' = [pc EXCEPT ![Main] = "m_stop"]
    /\ UNCHANGED <<handlerVars, wait_count, exitCode, drainDue, error_callback_>>
    /\ MainFrame

\* running = false, by main or by signal_handler
ClearRunning ==
    /\ running' = FALSE
    /\ drainDue' = IF running THEN pc[Worker] = "w_exit" ELSE drainDue

\* main: running = false
MainStopConsumer ==
    /\ pc[Main] = "m_stop"
    /\ ClearRunning
    /\ pc' = [pc EXCEPT ![Main] = "m_join"]
    /\ UNCHANGED <<is_fetching_, fetch_thread_, metrics_, errors, wait_count, exitCode,
                   error_callback_>>
    /\ MainFrame

\* main: consumer.join(); the final report loads the counters
MainJoinConsumer ==
    /\ pc[Main] = "m_join"
    /\ pc[ConsumerThread] = "c_exit"
    /\ pc' = [pc EXCEPT ![Main] = "m_dtor", ![ConsumerThread] = "off"]
    /\ UNCHANGED <<handlerVars, wait_count, exitCode, drainDue, error_callback_>>
    /\ MainFrame

\* the try block ends: ~DatabentoHandler calls StopAsyncFetch
MainDtorStopStore == StopStore(Main, "m_dtor", "m_dtor_join") /\ UNCHANGED callerVars

\* ... and main returns 0
MainDtorStopJoin ==
    /\ StopJoin(Main, "m_dtor_join", "m_done")
    /\ exitCode' = 0
    /\ UNCHANGED <<callLog, apiKey, wait_count, drainDue, error_callback_>>

\* signal_handler(SIGINT or SIGTERM): running = false
SignalHandler ==
    /\ pc[Main] # "m_done"
    /\ running
    /\ ClearRunning
    /\ UNCHANGED pc
    /\ UNCHANGED <<is_fetching_, fetch_thread_, metrics_, errors, wait_count, exitCode,
                   error_callback_>>
    /\ MainFrame

MainNext ==
    \/ MainCreateFails
    \/ MainCreate
    \/ MainStartCheck
    \/ MainStartStopStore
    \/ MainStartStopJoin
    \/ MainStartSpawn
    \/ MainStartSetFlag
    \/ MainWaitFetching
    \/ MainWaitRunning
    \/ MainWaitWake
    \/ MainSettle
    \/ MainStopConsumer
    \/ MainJoinConsumer
    \/ MainDtorStopStore
    \/ MainDtorStopJoin

\* the process at the entry of main, over a source of MainRecords records;
\* each record is measured on its own: during its push the clock is set back
\* by MaxClockStepBack or advances by MaxLatency
InitMain ==
    /\ RingInit
    /\ HistInit
    /\ pc = [t \in AllThreads |-> IF t \in {Worker, ConsumerThread} THEN "off"
                                  ELSE "idle"]
    /\ pos = [t \in AllThreads |-> 0]
    /\ seq = [t \in AllThreads |-> 0]
    /\ item = [t \in AllThreads |-> NoItem]
    /\ ret = [t \in AllThreads |-> "none"]
    /\ next = [t \in AllThreads |-> 1]
    /\ sizeRet = 0
    /\ utilRet = 0
    /\ tracking = FALSE
    /\ latencies = {0 - MaxClockStepBack, MaxLatency}
    /\ quota = 0
    /\ is_fetching_ = FALSE
    /\ fetch_thread_ = "null"
    /\ metrics_ = MetricsInit
    /\ running = TRUE
    /\ errors = <<>>
    /\ rec = [t \in Fetchers |-> 1]
    /\ fetchNo = 0
    /\ lat = [t \in AllThreads |-> 0]
    /\ cmax = [t \in AllThreads |-> 0]
    /\ \E schema \in ConfiguredSchemas : wschema = [t \in Fetchers |-> schema]
    /\ ri = [t \in Fetchers |-> 0]
    /\ numRecords = [t \in Fetchers |-> MainRecords]
    /\ stopRec = -1
    /\ callLog = <<>>
    /\ apiKey \in ApiKeys
    /\ wait_count = 0
    /\ exitCode = -1
    /\ drainDue = FALSE
    /\ error_callback_ = FALSE

NextMain == MainNext \/ WorkerNext \/ ConsumerThreadNext \/ SignalHandler

\* main(), the worker it starts, its consumer thread, and signals
SpecMain == InitMain /\ [][NextMain]_vars

\* --------------------------------------------------- claims on the handler

Min(a, b) == IF a < b THEN a ELSE b

Max(a, b) == IF a > b THEN a ELSE b

\* the worker's try_push calls that have returned
PushCalls == next[Worker] - 1

\* the worker is handling a failed push
AfterFailedPush ==
    pc[Worker] \in {"w_over", "w_overload", "w_util", "util_deq", "w_notice",
                    "w_notice_call"}

\* C5: from an empty ring of N slots with nothing popping, the first N
\* try_push calls of the producer return true and every later one returns
\* false; each failed push adds 1 to buffer_overruns and leaves
\* messages_received as it is until the next record (in the first fetch, N received and every call
\* after the N-th an overrun).
C5_FirstNPushesOnly ==
    /\ [](pc[Worker] = "w_recv" => PushCalls <= N)
    /\ [](pc[Worker] = "w_over" => PushCalls > N)
    /\ [](pc[Worker] = "w_rec" => enqueue_pos_ = Min(PushCalls, N))
    /\ []((fetchNo = 1 /\ pc[Worker] = "w_rec") =>
            /\ metrics_.messages_received = Min(PushCalls, N)
            /\ metrics_.buffer_overruns = Max(PushCalls - N, 0))
    /\ [][(AfterFailedPush /\ pc'[Worker] # pc[Worker]) =>
            /\ metrics_'.messages_received = metrics_.messages_received
            /\ metrics_'.buffer_overruns =
                  metrics_.buffer_overruns + (IF pc[Worker] = "w_over" THEN 1 ELSE 0)]_vars

\* N + 2 pushes were made: N succeeded, 2 failed, overruns = 2
C5_Witness ==
    /\ fetchNo = 1
    /\ pc[Worker] = "w_rec"
    /\ PushCalls = N + 2
    /\ metrics_.messages_received = N
    /\ metrics_.buffer_overruns = 2
    /\ enqueue_pos_ - dequeue_pos_ = N

\* the consumer thread has exited or has been joined
ConsumerGone ==
    \/ pc[ConsumerThread] = "c_exit"
    \/ pc[Main] \in {"m_dtor", "m_dtor_join"}
    \/ pc[Main] = "m_done" /\ exitCode = 0

\* C8: when the producer has finished and running is then cleared, the
\* consumer leaves its loop only with the ring empty, so that after it is
\* joined ring.size() = 0.
C8_GracefulDrain ==
    (drainDue /\ ConsumerGone) => USub(enqueue_pos_, dequeue_pos_) = 0

\* the last call of the client was StopAsyncFetch and it has returned
StopReturned ==
    /\ pc[Client] = "idle"
    /\ callLog # <<>>
    /\ callLog[Len(callLog)] = "stop"

\* the call of StopAsyncFetch in progress follows a StopAsyncFetch, or no call
StopRepeated ==
    /\ pc[Client] = "st_join"
    /\ Len(callLog) >= 2 => callLog[Len(callLog) - 1] = "stop"

\* what StopAsyncFetch leaves behind
Stopped ==
    /\ pc[Worker] = "off"
    /\ fetch_thread_ = "null"
    /\ ~is_fetching_

\* C9: when StopAsyncFetch returns, the worker (if any) has terminated and
\* been joined and IsFetching() is false; a StopAsyncFetch that follows
\* another, or that is the first call made, changes nothing and is not blocked
\* by its join.
C9_StopPostAndIdempotent ==
    /\ [](StopReturned => Stopped)
    /\ [](StopRepeated => (Stopped /\ ENABLED ClientStopJoin))
    /\ [][(StopRepeated \/ StopRepeated')
            => UNCHANGED <<ringVars, handlerVars, workerVars, pc[Worker]>>]_vars

\* StopAsyncFetch returned after joining a worker it stopped, and then
\* StopAsyncFetch was called again and returned
C9_Witness ==
    /\ StopReturned
    /\ callLog = <<"start", "stop", "stop">>
    /\ fetchNo = 1
    /\ stopRec >= 0

\* the records of the current fetch that are in the ring
PushedRecs ==
    {e[2].k - (fetchNo - 1) * numRecords[Worker] :
        e \in {x \in pushedAt :
                 x[2].src = Worker /\ x[2].k > (fetchNo - 1) * numRecords[Worker]}}

\* C10: once StopAsyncFetch has cleared is_fetching_ with the worker inside
\* its record loop, the worker pushes at most the record it is processing
\* (stopRec) and no later record of the source.
C10_NoRecordAfterStop ==
    stopRec >= 0 => \A k \in PushedRecs : k <= stopRec

\* the worker's thread function has returned and its FetchHistoricalBBO had
\* gone through its catch block: it returned false, or the callback's
\* exception left it
CatchBlockRan == pc[Worker] = "w_exit" /\ ret[Worker] \in {"false", "exception"}

\* the worker delivered every record of the source, FetchHistoricalBBO
\* returned true and the thread function has returned
SourceExhausted ==
    /\ pc[Worker] = "w_exit"
    /\ rec[Worker] > numRecords[Worker]
    /\ ret[Worker] = "true"

\* C11: once the worker has consumed the whole source and terminated, and
\* the StartAsyncFetch that spawned it has returned, IsFetching() is false.
C11_IdleAfterExhaustion ==
    (SourceExhausted /\ pc[Client] = "idle") => ~is_fetching_

\* the last call of the client was StartAsyncFetch, it found is_fetching_
\* true and has returned, the worker still being inside its record loop
AlreadyFetchingReported ==
    /\ pc[Client] = "idle"
    /\ callLog # <<>>
    /\ callLog[Len(callLog)] = "start"
    /\ errors # <<>>
    /\ errors[Len(errors)] = "already"

\* C12: a StartAsyncFetch that loads is_fetching_ true hands one message to
\* the registered error callback and returns: its two steps, the load and
\* the report, spawn no worker, neither stop nor join the running one, and
\* leave ring, metrics and is_fetching_ as they are.
C12_StartWhileFetchingIsNoOp ==
    /\ [][(pc[Client] = "idle" /\ is_fetching_ /\ callLog' = Append(callLog, "start"))
            => /\ pc' = [pc EXCEPT ![Client] = "sa_report"]
               /\ UNCHANGED <<ringVars, pushedAt, poppedAt, handlerVars, workerVars,
                              error_callback_>>]_vars
    /\ [][(pc[Client] = "sa_report" /\ pc'[Client] \notin {"sa_report", "dead"})
            => /\ pc' = [pc EXCEPT ![Client] = "idle"]
               /\ error_callback_ => errors' = Append(errors, "already")
               /\ ~error_callback_ => errors' = errors
               /\ UNCHANGED <<ringVars, pushedAt, poppedAt, metrics_, is_fetching_,
                              fetch_thread_, workerVars, callLog, error_callback_>>]_vars

\* the call was made while a worker was between its first two records
C12_Witness ==
    /\ AlreadyFetchingReported
    /\ fetchNo = 1
    /\ pc[Worker] = "w_proc"
    /\ is_fetching_

\* in the first fetch the source threw after at least one record was pushed,
\* and the worker's thread function has returned
SourceFailedAfterPush ==
    /\ fetchNo = 1
    /\ wschema[Worker] \in SupportedSchemas
    /\ CatchBlockRan
    /\ PushedRecs # {}

\* C13: when the source throws after k records were pushed, the worker stops,
\* the error sink receives the error, the producer ends with IsFetching()
\* false, and the k pushed records stay in the ring with the metrics
\* accumulated so far.
C13_IdleAfterSourceFailure ==
    (SourceFailedAfterPush /\ pc[Client] = "idle") =>
        /\ ~is_fetching_
        /\ enqueue_pos_ = metrics_.messages_received
        /\ Cardinality(PushedRecs) = enqueue_pos_

\* the configuration is in error: no usable API key, or an unsupported schema
ConfigurationError == CreateFromEnvThrows \/ wschema[Worker] \notin SupportedSchemas

\* C14: with a missing or empty API key, or a configured schema that is
\* neither "bbo-1s" nor "bbo-1m", the program ends with exit code 1.
C14_ConfigErrorsFatal ==
    (pc[Main] = "m_done" /\ ConfigurationError) => exitCode = 1

\* main has printed its final metrics report
ReportEmitted ==
    \/ pc[Main] \in {"m_dtor", "m_dtor_join"}
    \/ pc[Main] = "m_done" /\ exitCode = 0

\* the worker can neither push nor count any more: it was never started, has
\* returned, or is at the last statement of AsyncFetchWorker
WorkerDone == pc[Worker] \in {"off", "w_exit", "w_final"}

\* C15: on every path through main the final metrics report is emitted only
\* after the producer worker and the consumer thread are done, so that no
\* push, pop or count follows the report.
C15_ReportAfterWorkersDone ==
    ReportEmitted => (WorkerDone /\ pc[ConsumerThread] = "off")

\* C16: main's wait loop never performs more than FETCH_TIMEOUT_SECONDS
\* one-second polls: it is left as soon as that many have elapsed.
C16_AtMostTimeoutPolls == wait_count <= FETCH_TIMEOUT_SECONDS

\* ------------- SpecMetrics: threads on the push-and-count path, a popper

\* the thread that pops in SpecMetrics
Poppers == {"c1"}

\* a thread calls ProcessBBORecord with its next record
ProducerProcessRecord(t) ==
    /\ next[t] <= quota
    /\ PushLoadPos(t, "w_rec", Item(t, next[t]))
    /\ AppRingFrame

InitMetrics ==
    /\ RingInit
    /\ HistInit
    /\ pc = [t \in AllThreads |-> IF t \in Producers THEN "w_rec" ELSE "idle"]
    /\ pos = [t \in AllThreads |-> 0]
    /\ seq = [t \in AllThreads |-> 0]
    /\ item = [t \in AllThreads |-> NoItem]
    /\ ret = [t \in AllThreads |-> "none"]
    /\ next = [t \in AllThreads |-> 1]
    /\ sizeRet = 0
    /\ utilRet = 0
    /\ tracking = FALSE
    /\ latencies = Latencies
    /\ quota = MetricsPush
    /\ AppInit(0)

NextMetrics ==
    \/ \E t \in Producers : ProducerProcessRecord(t)
    \/ \E t \in Producers : WorkerPushLoadSeq(t)
    \/ \E t \in Producers : WorkerPushCasWin(t)
    \/ \E t \in Producers : WorkerPushCasLose(t)
    \/ \E t \in Producers : WorkerPushReload(t)
    \/ \E t \in Producers : WorkerPushWriteData(t)
    \/ \E t \in Producers : WorkerPushStoreSeq(t)
    \/ \E t \in Producers : WorkerCountReceived(t)
    \/ \E t \in Producers : WorkerCountProcessed(t)
    \/ \E t \in Producers : WorkerAddLatency(t)
    \/ \E t \in Producers : WorkerLoadMax(t)
    \/ \E t \in Producers : WorkerMaxCas(t)
    \/ \E t \in Producers : WorkerCountOverrun(t)
    \/ \E t \in Producers : WorkerLoadOverruns(t)
    \/ \E t \in Producers : WorkerUtilLoadEnq(t)
    \/ \E t \in Producers : WorkerUtilLoadDeq(t)
    \/ \E t \in Producers : WorkerNoticeTest(t)
    \/ \E t \in Poppers : ConsumerPopLoadPos(t)
    \/ \E t \in Poppers : ConsumerPopLoadSeq(t)
    \/ \E t \in Poppers : ConsumerPopCasWin(t)
    \/ \E t \in Poppers : ConsumerPopCasLose(t)
    \/ \E t \in Poppers : ConsumerPopReadData(t)
    \/ \E t \in Poppers : ConsumerPopStoreSeq(t)

\* K threads running ProcessBBORecord's push-and-count path on one handler
\* while a thread pops
SpecMetrics == InitMetrics /\ [][NextMetrics]_vars

\* the producer threads are between records
ProducersQuiescent == \A t \in Producers : pc[t] = "w_rec"

\* the pushes that returned true and are not counted yet
UncountedPushes == Cardinality({t \in Producers : pc[t] = "w_recv"})

\* C17: with K threads on the push-and-count path, messages_received is the
\* number of try_push calls that returned true, less those whose thread has
\* not reached its fetch_add yet; so at quiescence it is that number.
C17_NoLostReceived ==
    /\ metrics_.messages_received + UncountedPushes = Cardinality(pushedAt)
    /\ ProducersQuiescent => metrics_.messages_received = Cardinality(pushedAt)

\* K threads made M successful pushes each and are quiescent
C17_Witness ==
    /\ ProducersQuiescent
    /\ \A t \in Producers : OwnPushes(t) = MetricsPush
    /\ metrics_.messages_received = Cardinality(Producers) * MetricsPush

\* main returned 0: the consumer thread and the worker have been joined
RunCompleted == pc[Main] = "m_done" /\ exitCode = 0

\* C18: after the producer and the consumer have both quiesced,
\* messages_processed <= messages_received.
C18_ProcessedAtMostReceived ==
    RunCompleted => metrics_.messages_processed <= metrics_.messages_received

\* the consumer thread's last try_pop returned false, after an earlier one
\* had returned true (so after the fetch's metrics_.Reset(), which precedes
\* every push)
PopFailedAfterPop ==
    /\ pc[ConsumerThread] \in {"c_loop", "c_exit"}
    /\ ret[ConsumerThread] = "false"
    /\ dequeue_pos_ >= 1

\* C19: every iteration of the consumer whose try_pop returns false adds 1 to
\* buffer_underruns.
C19_FailedPopCounted == PopFailedAfterPop => metrics_.buffer_underruns >= 1

\* the six counters of PerformanceMetrics
Counters == DOMAIN MetricsInit

\* C20: no step of any sequence of handler operations decreases one of the
\* six counters.
C20_CountersNeverDecrease ==
    [][\A k \in Counters : metrics_'[k] >= metrics_[k]]_vars

\* ------------------------------------------- further claims on the ring

\* static constexpr size_t capacity(): return N - 1
capacity == N - 1

\* C21: with nothing popping, the try_push calls that succeed on the empty
\* ring are as many as capacity() reports: never more than capacity() items
\* are accepted, and a try_push fails only with capacity() items in the ring.
C21_CapacityIsWhatFits ==
    /\ Cardinality(pushedAt) <= capacity
    /\ pc[Worker] = "w_over" => Cardinality(pushedAt) = capacity

\* ------------------------------------------------- SpecProgress: fairness

\* elements each producer thread of SpecProgress pushes
ProgressPush == 2

\* the steps of one producer thread
ProducerStep(t) ==
    \/ ProducerPushLoadPos(t)
    \/ ProducerPushLoadSeq(t)
    \/ ProducerPushCasWin(t)
    \/ ProducerPushCasLose(t)
    \/ ProducerPushReload(t)
    \/ ProducerPushWriteData(t)
    \/ ProducerPushStoreSeq(t)

\* the steps of one consumer thread
ConsumerStep(t) ==
    \/ ConsumerPopLoadPos(t)
    \/ ConsumerPopLoadSeq(t)
    \/ ConsumerPopCasWin(t)
    \/ ConsumerPopCasLose(t)
    \/ ConsumerPopReload(t)
    \/ ConsumerPopReadData(t)
    \/ ConsumerPopStoreSeq(t)

\* the runs of SpecProgress: the threads that exist and what each producer
\* pushes (two producers contending, two consumers contending, and one
\* producer with one consumer pushing into a full ring)
Runs ==
    {[threads |-> {"p1", "p2", "c1"}, pushes |-> ProgressPush],
     [threads |-> {"p1", "c1", "c2"}, pushes |-> ProgressPush],
     [threads |-> {"p1", "c1"}, pushes |-> ProgressPush + 1]}

InitProgress ==
    /\ RingInit
    /\ \E r \in Runs :
          /\ pc = [t \in AllThreads |->
                     IF t \in (Producers \cup Consumers) \ r.threads
                     THEN "off" ELSE "idle"]
          /\ quota = r.pushes
    /\ pos = [t \in AllThreads |-> 0]
    /\ seq = [t \in AllThreads |-> 0]
    /\ item = [t \in AllThreads |-> NoItem]
    /\ ret = [t \in AllThreads |-> "none"]
    /\ HistInit
    /\ next = [t \in AllThreads |-> 1]
    /\ sizeRet = 0
    /\ utilRet = 0
    /\ tracking = FALSE
    /\ latencies = Latencies
    /\ AppInit(0)

\* every thread keeps being scheduled, and compare_exchange_weak does not
\* fail for ever when the cursor has the expected value again and again
FairScheduling ==
    /\ \A t \in Producers : WF_vars(ProducerStep(t)) /\ SF_vars(ProducerPushCasWin(t))
    /\ \A t \in Consumers : WF_vars(ConsumerStep(t)) /\ SF_vars(ConsumerPopCasWin(t))

\* the ring threads under fair scheduling
SpecProgress == InitProgress /\ [][Next]_vars /\ FairScheduling

\* the threads of ts inside a call of kind `active`
InCall(ts, active) == {t \in ts : pc[t] \in active}

\* while the threads s of ts are inside a call, some call of ts returns: the
\* call of one of s, or a call that another thread of ts enters from now on
SomeCallReturns(ts, active, s) ==
    [](InCall(ts, active) = s =>
         <>(\/ \E t \in s : pc[t] = "idle"
            \/ \E u \in ts \ s : pc[u] \in active /\ <>(pc[u] = "idle")))

\* C22: a thread inside try_push or try_pop always has a step of its own to
\* take, whatever the other threads do; under fair scheduling, while a thread
\* is inside try_push some try_push returns and while a thread is inside
\* try_pop some try_pop returns; and with one producer thread and one
\* consumer thread every call returns.
C22_LockFreeProgress ==
    /\ [](\A t \in Producers : pc[t] \in PushActive => ENABLED ProducerStep(t))
    /\ [](\A t \in Consumers : pc[t] \in PopActive => ENABLED ConsumerStep(t))
    /\ \A s \in (SUBSET Producers) \ {{}} : SomeCallReturns(Producers, PushActive, s)
    /\ \A s \in (SUBSET Consumers) \ {{}} : SomeCallReturns(Consumers, PopActive, s)
    /\ \A t \in Producers \cup Consumers :
          []((pc["p2"] = "off" /\ pc["c2"] = "off" /\ pc[t] \in PushActive \cup PopActive)
               => <>(pc[t] = "idle"))

\* a producer is about to lose the cursor CAS to the other producer, which
\* has claimed the position both had loaded, while a consumer is inside try_pop
C22_Witness ==
    /\ pc["p1"] = "push_cas" /\ PushDiff(seq["p1"], pos["p1"]) = 0
    /\ pc["p2"] = "push_data" /\ pos["p2"] = pos["p1"]
    /\ pos["p1"] = N
    /\ pc["c1"] \in PopActive

\* ---------------------------------------------- cursors and slot sequences

\* C23: in every state, a slot claimed and not yet published or released
\* included, dequeue_pos_ <= enqueue_pos_ <= dequeue_pos_ + N, and a step
\* that changes a cursor adds exactly 1 to it.
C23_CursorsBounded ==
    /\ [](dequeue_pos_ <= enqueue_pos_ /\ enqueue_pos_ - dequeue_pos_ <= N)
    /\ [][/\ enqueue_pos_' \in {enqueue_pos_, enqueue_pos_ + 1}
          /\ dequeue_pos_' \in {dequeue_pos_, dequeue_pos_ + 1}]_vars

\* the cursors are N apart after a wrap, with a slot claimed by a push that
\* has not published it, and a consumer inside try_pop
C23_Witness ==
    /\ enqueue_pos_ - dequeue_pos_ = N
    /\ dequeue_pos_ >= 1
    /\ \E t \in Producers : pc[t] = "push_data" /\ pos[t] = enqueue_pos_ - 1
    /\ \E t \in Consumers : pc[t] = "pop_seq"

\* the positions of the calls in `done` that fell on slot i
PositionsOn(done, i) == {a[1] : a \in {b \in done : SlotOf(b[1]) = i}}

\* the sequence slot i holds after the calls that have returned true:
\* i from the constructor, pos + 1 from the last push, pos + N once that
\* position was popped
SeqAfterCalls(i) ==
    LET pushed == PositionsOn(pushedAt, i)
        last == CHOOSE p \in pushed : \A q \in pushed : q <= p
    IN  IF pushed = {} THEN i
        ELSE IF last \in PositionsOn(poppedAt, i) THEN last + N
        ELSE last + 1

\* C24: every slot's sequence is i after construction; in every state it is
\* k*N + i or k*N + i + 1 for some k >= 0, namely the value the last call
\* that returned true on the slot stored; a step changes it only from pos
\* to pos + 1 by the push that claimed pos, or from pos + 1 to pos + N by
\* the pop that claimed pos.
C24_SlotSequenceProtocol ==
    /\ \A i \in 0..(N - 1) : buffer_seq[i] = i
    /\ [](\A i \in 0..(N - 1) :
            /\ \E k \in 0..enqueue_pos_ :
                  buffer_seq[i] = k * N + i \/ buffer_seq[i] = k * N + i + 1
            /\ buffer_seq[i] = SeqAfterCalls(i))
    /\ [][\A i \in 0..(N - 1) : buffer_seq'[i] # buffer_seq[i] =>
            \E t \in Producers \cup Consumers :
                /\ SlotOf(pos[t]) = i
                /\ pc'[t] = "idle" /\ ret'[t] = "true"
                /\ \/ /\ pc[t] = "push_store"
                      /\ buffer_seq[i] = pos[t] /\ buffer_seq'[i] = pos[t] + 1
                   \/ /\ pc[t] = "pop_store"
                      /\ buffer_seq[i] = pos[t] + 1 /\ buffer_seq'[i] = pos[t] + N]_vars

\* slot 0 is filled for epoch 1 and slot N - 1 is empty for epoch 1
C24_Witness ==
    /\ buffer_seq[0] = N + 1
    /\ buffer_seq[N - 1] = N + (N - 1)

\* ------------------------------------------------------- slot ownership

\* between the cursor CAS a thread won and its store to the slot's sequence
Owning == {"push_data", "push_store", "pop_data", "pop_store"}

\* the threads between their CAS and their sequence store on slot i
Owners(i) ==
    {t \in Producers \cup Consumers : pc[t] \in Owning /\ SlotOf(pos[t]) = i}

\* C25: a slot has at most one thread between the cursor CAS it won and its
\* store to the slot's sequence, and until that store the sequence keeps
\* the value the owner saw (pos for a push, pos + 1 for a pop); the slot's
\* data is written only by that owner, and a thread comes to own a slot only
\* from a load that gave diff = 0 followed by the CAS it won, so that a
\* thread that saw diff # 0 neither reads nor writes the data.
C25_ExclusiveSlotOwnership ==
    /\ [](\A i \in 0..(N - 1) : Cardinality(Owners(i)) <= 1)
    /\ [](\A t \in Producers \cup Consumers :
            /\ pc[t] \in {"push_data", "push_store"} =>
                  buffer_seq[SlotOf(pos[t])] = pos[t]
            /\ pc[t] \in {"pop_data", "pop_store"} =>
                  buffer_seq[SlotOf(pos[t])] = pos[t] + 1)
    /\ [][\A t \in Producers \cup Consumers :
            /\ (pc'[t] = "push_data" /\ pc[t] # "push_data") =>
                  /\ pc[t] = "push_cas" /\ seq[t] - pos[t] = 0
                  /\ enqueue_pos_ = pos[t] /\ enqueue_pos_' = pos[t] + 1
                  /\ pos'[t] = pos[t]
            /\ (pc'[t] = "pop_data" /\ pc[t] # "pop_data") =>
                  /\ pc[t] = "pop_cas" /\ seq[t] - (pos[t] + 1) = 0
                  /\ dequeue_pos_ = pos[t] /\ dequeue_pos_' = pos[t] + 1
                  /\ pos'[t] = pos[t]
            /\ (pc[t] \in {"push_cas", "pop_cas"} /\ pc'[t] \in Owning) =>
                  seq[t] - pos[t] = (IF pc[t] = "push_cas" THEN 0 ELSE 1)
            /\ (pc[t] \in Owning /\ pc'[t] \in Owning) => pos'[t] = pos[t]]_vars
    /\ [][\A i \in 0..(N - 1) : buffer_data'[i] # buffer_data[i] =>
            \E t \in Owners(i) : pc[t] = "push_data" /\ pc'[t] = "push_store"]_vars
    /\ [][\A t \in Consumers : item'[t] # item[t] =>
            /\ pc[t] = "pop_data" /\ pc'[t] = "pop_store"
            /\ item'[t] = buffer_data[SlotOf(pos[t])]]_vars

\* after a wrap, a producer owns one slot and a consumer the other, while
\* the other producer holds the position the first has claimed and the other
\* consumer the position the first has claimed
C25_Witness ==
    \E p \in Producers : \E q \in Producers \ {p} :
    \E c \in Consumers : \E d \in Consumers \ {c} :
        /\ pc[p] = "push_data" /\ pos[p] >= N
        /\ pc[q] = "push_cas" /\ pos[q] = pos[p]
        /\ pc[c] = "pop_data" /\ SlotOf(pos[c]) # SlotOf(pos[p])
        /\ pc[d] = "pop_cas" /\ pos[d] = pos[c]

\* -------------------------------------------------- reset and quiescence

\* C26: while metrics_.Reset() executes at the start of a fetch, the
\* consumer thread that updates and reads the same metrics is not running
\* (not started yet, or exited).
C26_ResetOnlyWhenQuiescent ==
    pc[Worker] = "w_reset" => pc[ConsumerThread] \in {"idle", "c_exit"}

====
